---- MODULE Spec2Model ----
(***************************************************************************)
(* Verification model of mercantil-seguros-bot: the direct API client's    *)
(* catalog resolution, the browser bot's quote flow, the quote plan        *)
(* parser, the purchase-form plan-id mapping, the label inference and the  *)
(* purchase page's grouping and premium engine.                            *)
(*                                                                         *)
(* JavaScript strings are TLA+ strings; TLC evaluates Len, SubSeq and \o   *)
(* on them, so substring tests and regular expressions are computed on     *)
(* the characters, as the code computes them.  Indices are 1-based here    *)
(* (0 stands for JavaScript's -1 "not found").                             *)
(***************************************************************************)
EXTENDS Integers, Sequences, FiniteSets, TLC

VARIABLES
  \* --- MercantilSegurosAPIClient (src/unnamed/part_002) ---
  dataDir,      \* the catalog stored under data/ (NoCatalog: no catalog-*.json file)
  catalog,      \* this.catalog (NoCatalog until loaded)
  apiLast,      \* config and resolved IDs of the last generateQuote call
  apiResult,    \* QuoteResult of the last generateQuote call
  sentReqs,     \* form data POSTed to the remote site, in order
  \* --- plan-id mapping of POST /purchase-form (src/app/api/purchase-form/route.ts) ---
  planId,          \* the planId of the request body
  purchasePlanId,  \* mapPlanIdToPurchaseForm(planId), NULL before the call
  remappedPlanId,  \* the mapping applied to its own output, NULL before the call
  \* --- label inference (src/src/index.ts, route.ts, src/app/purchase/page.tsx) ---
  lbElement,    \* the form element on the remote purchase page and its DOM context
  lbField,      \* the PurchaseFormField extracted from it (NoField before extraction)
  lbLabel,      \* getFieldLabel(lbField), NULL before the call
  lbRun,        \* the extraction that reached the element: which one, the read
                \* that threw in it, and the success flag of its result
  \* --- purchase page (src/app/purchase/page.tsx) ---
  ppRemote,     \* the elements of the remote purchase form, in document order
  ppStored,     \* sessionStorage purchaseFormData: the fields of the main form
  ppLoaded,     \* the load effect has run (purchaseFormData is set)
  formValues,   \* the formValues state: key -> tracked value
  basePremium,  \* the basePremium state, in cents
  ppGroups,     \* group key of each field as rendered ("none": not rendered)
  ppSelected,   \* riders whose last checkbox event was a check by the user
  ppToggles,    \* number of checkbox events so far
  ppEdits,      \* number of text input events so far
  ppUnticked,   \* checkboxes whose last checkbox event was an uncheck by the user
  ppPayload,    \* the FormData handleSubmit has just built (NoPayload otherwise)
  ppEntered,    \* field name -> the text the user last typed into its input
  \* --- MercantilSegurosBot (src/src/index.ts) ---
  botBrowser,     \* "none" before initialize(), then "open", "closed" after close()
  botPc,          \* position of generateQuote
  botConfig,      \* the QuoteConfig of the call
  botSite,        \* the remote quote page
  botStrict,      \* the driver's selectOption refuses a disabled option
  botTrip,        \* value selected in the trip type dropdown, or NULL
  botAvailable,   \* availableDestinations once read
  botOrigin,      \* value selected in the origin dropdown, or NULL
  botDestination, \* value selected in the destination dropdown, or NULL
  botAgesFilled,  \* number of age inputs filled
  botSubmitted,   \* the submit button has been clicked
  botError,       \* the error caught by generateQuote, or NULL
  botResult,      \* what generateQuote returned, NoCall before
  \* --- parseQuotePlans (src/unnamed/part_002) ---
  pqHtml,       \* the HTML given to parseQuotePlans
  pqBuild,      \* what the build makes of the redeclared nameMatch
  pqFirst,      \* outcome of the first call, NoCall before
  pqSecond,     \* outcome of the second call on the same input, NoCall before
  \* --- data/ directory, scrapeCatalog() and GET /api/catalog ---
  catStd,       \* content of data/catalog.json (NoCatalog: no such file)
  catFiles,     \* the data/catalog-*.json files: file name -> content
  catClock,     \* Date.now(), in milliseconds after CatEpoch
  catBuilt,     \* the catalogs scrapeCatalog() has saved, oldest first
  catResponse,  \* the last response of GET /api/catalog, NoCall before
  catWriting,   \* the file writeFileSync has created and not yet filled
  \* --- quote form of the home page (route.ts, Home) ---
  qfPassengers, \* formData.passengers
  qfAges,       \* formData.ages
  qfPayload,    \* the payload handleSubmit has just posted to /api/quote
  \* --- operations that launch a browser (routes and scripts) ---
  opKind,       \* the operation running, "none" before it starts
  opPc,         \* its position
  opBody,       \* the JSON body of the request (NoBody for a script)
  opBrowser,    \* "none" until chromium.launch() returns, then "open", "closed"
  opUrl,        \* the URL given to page.goto by POST /api/purchase-form, or NULL
  opOutcome,    \* the response or the exception of the operation, NoCall before
  \* --- MercantilSegurosBot.scrapeCatalog (src/src/index.ts) ---
  scSite,         \* the dropdowns of the quote page
  scPc,           \* position of scrapeCatalog
  scTripTypes,    \* the tripTypes array
  scDestinations, \* the destinations object: trip type value -> options
  scFailed,       \* trip types whose destinations could not be scraped
  scResult        \* what scrapeCatalog returned or threw, NoCall before

apiVars == <<dataDir, catalog, apiLast, apiResult, sentReqs>>
pidVars == <<planId, purchasePlanId, remappedPlanId>>
lbVars == <<lbElement, lbField, lbLabel, lbRun>>
ppVars == <<ppRemote, ppStored, ppLoaded, formValues, basePremium, ppGroups,
            ppSelected, ppToggles, ppEdits, ppUnticked, ppPayload, ppEntered>>

botVars == <<botBrowser, botPc, botConfig, botSite, botStrict, botTrip, botAvailable,
             botOrigin, botDestination, botAgesFilled, botSubmitted, botError,
             botResult>>

pqVars == <<pqHtml, pqBuild, pqFirst, pqSecond>>

catVars == <<catStd, catFiles, catClock, catBuilt, catResponse, catWriting>>

opsVars == <<opKind, opPc, opBody, opBrowser, opUrl, opOutcome>>

scVars == <<scSite, scPc, scTripTypes, scDestinations, scFailed, scResult>>
qfVars == <<qfPassengers, qfAges, qfPayload>>

vars == <<apiVars, pidVars, lbVars, ppVars, botVars, pqVars, catVars, opsVars, scVars, qfVars>>

NULL == "<null>"

\* absent objects (a null catalog, no call made yet)
NoCatalog == [none |-> TRUE]
NoCall == [called |-> FALSE]
NoField == [none |-> TRUE]

----------------------------------------------------------------------------
(* String primitives of the JavaScript runtime.                            *)

\* s.substring(from, to) with 0-based from (inclusive) and to (exclusive).
Substring(s, from, to) == SubSeq(s, from + 1, to)

CharAt(s, i) == SubSeq(s, i, i)

\* sub occurs in s at 1-based position i.
OccursAt(s, sub, i) ==
  /\ i >= 1
  /\ i + Len(sub) - 1 <= Len(s)
  /\ SubSeq(s, i, i + Len(sub) - 1) = sub

\* s.includes(sub)
Includes(s, sub) == \E i \in 1..(Len(s) - Len(sub) + 1) : OccursAt(s, sub, i)

\* 1-based position of the first occurrence of sub at or after from; 0 if none.
IndexOfFrom(s, sub, from) ==
  LET hits == {i \in from..(Len(s) - Len(sub) + 1) : OccursAt(s, sub, i)}
  IN  IF hits = {} THEN 0 ELSE CHOOSE i \in hits : \A j \in hits : i <= j

IndexOf(s, sub) == IndexOfFrom(s, sub, 1)

\* 1-based position of the last occurrence of sub; 0 if none.
LastIndexOf(s, sub) ==
  LET hits == {i \in 1..(Len(s) - Len(sub) + 1) : OccursAt(s, sub, i)}
  IN  IF hits = {} THEN 0 ELSE CHOOSE i \in hits : \A j \in hits : i >= j

\* Array.prototype.find: index of the first element satisfying P, 0 if none.
FindIndex(seq, P(_)) ==
  LET hits == {i \in 1..Len(seq) : P(seq[i])}
  IN  IF hits = {} THEN 0 ELSE CHOOSE i \in hits : \A j \in hits : i <= j

Digits == "0123456789"

\* c is one character matched by \d
IsDigit(c) == Len(c) = 1 /\ Includes(Digits, c)

DigitVal(c) == IndexOf(Digits, c) - 1

\* every character of s is a digit and there is at least one (\d+ over all of s)
AllDigits(s) == Len(s) >= 1 /\ \A i \in 1..Len(s) : IsDigit(CharAt(s, i))

\* Number.prototype.toString of a non-negative integer
RECURSIVE IntToStr(_)
IntToStr(n) ==
  IF n < 10 THEN CharAt(Digits, n + 1)
  ELSE IntToStr(n \div 10) \o CharAt(Digits, (n % 10) + 1)

\* parseInt of a string of digits
RECURSIVE ParseDigits(_)
ParseDigits(s) ==
  IF Len(s) = 0 THEN 0
  ELSE 10 * ParseDigits(SubSeq(s, 1, Len(s) - 1)) + DigitVal(CharAt(s, Len(s)))


UpperChars == "ABCDEFGHIJKLMNOPQRSTUVWXYZÁÉÍÓÚÑ"
LowerChars == "abcdefghijklmnopqrstuvwxyzáéíóúñ"

UpperCharSet == {CharAt(UpperChars, i) : i \in 1..Len(UpperChars)}
LowerCharSet == {CharAt(LowerChars, i) : i \in 1..Len(LowerChars)}

LowerChar(c) ==
  IF c \in UpperCharSet THEN CharAt(LowerChars, IndexOf(UpperChars, c)) ELSE c

UpperChar(c) ==
  IF c \in LowerCharSet THEN CharAt(UpperChars, IndexOf(LowerChars, c)) ELSE c

\* String.prototype.toLowerCase
RECURSIVE ToLowerCase(_)
ToLowerCase(s) ==
  IF \A i \in 1..Len(s) : CharAt(s, i) \notin UpperCharSet THEN s
  ELSE LowerChar(CharAt(s, 1)) \o ToLowerCase(SubSeq(s, 2, Len(s)))

\* c is one character matched by \s
IsSpace(c) == c \in {" ", "\n", "\t"}

RECURSIVE TrimStart(_)
TrimStart(s) ==
  IF Len(s) > 0 /\ IsSpace(CharAt(s, 1)) THEN TrimStart(SubSeq(s, 2, Len(s))) ELSE s

RECURSIVE TrimEnd(_)
TrimEnd(s) ==
  IF Len(s) > 0 /\ IsSpace(CharAt(s, Len(s))) THEN TrimEnd(SubSeq(s, 1, Len(s) - 1)) ELSE s

\* String.prototype.trim
Trim(s) == TrimEnd(TrimStart(s))

\* s.replace(/lit/g, '') for a literal pattern
RECURSIVE RemoveAll(_, _)
RemoveAll(s, lit) ==
  LET i == IndexOf(s, lit)
  IN  IF i = 0 THEN s
      ELSE SubSeq(s, 1, i - 1) \o RemoveAll(SubSeq(s, i + Len(lit), Len(s)), lit)

\* s.replace(/lit/gi, '') for a lower-case literal pattern
RECURSIVE RemoveAllCI(_, _)
RemoveAllCI(s, lit) ==
  LET i == IndexOf(ToLowerCase(s), lit)
  IN  IF i = 0 THEN s
      ELSE SubSeq(s, 1, i - 1) \o RemoveAllCI(SubSeq(s, i + Len(lit), Len(s)), lit)

\* first position after the run of digits that starts at i
RECURSIVE EndOfDigits(_, _)
EndOfDigits(s, i) ==
  IF i <= Len(s) /\ IsDigit(CharAt(s, i)) THEN EndOfDigits(s, i + 1) ELSE i

\* s.replace(/word\d+/g, '')
RECURSIVE RemoveWordDigits(_, _)
RemoveWordDigits(s, word) ==
  LET hits == {i \in 1..(Len(s) - Len(word)) :
                 OccursAt(s, word, i) /\ IsDigit(CharAt(s, i + Len(word)))}
  IN  IF hits = {} THEN s
      ELSE LET i == CHOOSE h \in hits : \A k \in hits : h <= k
               e == EndOfDigits(s, i + Len(word))
           IN  SubSeq(s, 1, i - 1) \o RemoveWordDigits(SubSeq(s, e, Len(s)), word)

\* s.replace(/\[.*?\]/g, ''): each "[" up to the next "]" on the same line
RECURSIVE RemoveBracketed(_)
RemoveBracketed(s) ==
  LET i == IndexOf(s, "[")
      j == IF i = 0 THEN 0 ELSE IndexOfFrom(s, "]", i + 1)
  IN  IF i = 0 \/ j = 0 THEN s
      ELSE IF Includes(SubSeq(s, i + 1, j - 1), "\n")
             THEN SubSeq(s, 1, i) \o RemoveBracketed(SubSeq(s, i + 1, Len(s)))
             ELSE SubSeq(s, 1, i - 1) \o RemoveBracketed(SubSeq(s, j + 1, Len(s)))

\* s.replace(/a/g, b) for single characters
RECURSIVE ReplaceChar(_, _, _)
ReplaceChar(s, a, b) ==
  IF Len(s) = 0 THEN ""
  ELSE (IF CharAt(s, 1) = a THEN b ELSE CharAt(s, 1)) \o
       ReplaceChar(SubSeq(s, 2, Len(s)), a, b)

\* s.replace(/\s+/g, ' ')
RECURSIVE CollapseSpaces(_)
CollapseSpaces(s) ==
  IF Len(s) = 0 THEN ""
  ELSE IF IsSpace(CharAt(s, 1))
         THEN " " \o CollapseSpaces(TrimStart(s))
         ELSE CharAt(s, 1) \o CollapseSpaces(SubSeq(s, 2, Len(s)))

\* s.split(' ').map(word => word.charAt(0).toUpperCase() + word.slice(1)).join(' ')
RECURSIVE CapitalizeWords(_, _)
CapitalizeWords(s, atStart) ==
  IF Len(s) = 0 THEN ""
  ELSE (IF atStart THEN UpperChar(CharAt(s, 1)) ELSE CharAt(s, 1)) \o
       CapitalizeWords(SubSeq(s, 2, Len(s)), CharAt(s, 1) = " ")

\* s.split(separators).filter(part => part.length > 0)
RECURSIVE SplitOn(_, _, _)
SplitOn(s, seps, cur) ==
  IF Len(s) = 0 THEN (IF cur = "" THEN <<>> ELSE <<cur>>)
  ELSE IF CharAt(s, 1) \in seps
         THEN (IF cur = "" THEN <<>> ELSE <<cur>>) \o SplitOn(SubSeq(s, 2, Len(s)), seps, "")
         ELSE SplitOn(SubSeq(s, 2, Len(s)), seps, cur \o CharAt(s, 1))

\* s.split(/[\[\]_]/).filter(part => part.length > 0)
SplitParts(s) == SplitOn(s, {"[", "]", "_"}, "")

----------------------------------------------------------------------------
(* MercantilSegurosAPIClient: resolution of a QuoteConfig against the      *)
(* catalog.                                                                *)

DefaultTripType == "Viajes Por Día"
DefaultOriginId == "160"
DefaultDestinationId == "3"
DefaultAgent == "2851"

\* the predicate of catalog.tripTypes.find(...)
TripTypeMatches(t, tripType) ==
  \/ t.text = tripType
  \/ t.value = tripType
  \/ Includes(tripType, t.text)
  \/ Includes(tripType, t.value)

\* the predicate of catalog.origins.find(...) and destinations.find(...)
TextMatches(o, text) ==
  \/ o.text = text
  \/ Includes(o.text, text)
  \/ Includes(text, o.text)

getTripTypeValue(cat, tripType) ==
  LET P(t) == TripTypeMatches(t, tripType)
      i == FindIndex(cat.tripTypes, P)
  IN  IF i = 0 \/ cat.tripTypes[i].value = ""
        THEN DefaultTripType
        ELSE cat.tripTypes[i].value

getOriginId(cat, originText) ==
  LET P(o) == TextMatches(o, originText)
      i == FindIndex(cat.origins, P)
  IN  IF i = 0 \/ cat.origins[i].value = ""
        THEN DefaultOriginId
        ELSE cat.origins[i].value

\* catalog.destinations[tripTypeValue] || catalog.destinations[tripType] || []
DestinationsFor(cat, tripType) ==
  LET tripTypeValue == getTripTypeValue(cat, tripType)
  IN  IF tripTypeValue \in DOMAIN cat.destinations
        THEN cat.destinations[tripTypeValue]
        ELSE IF tripType \in DOMAIN cat.destinations
               THEN cat.destinations[tripType]
               ELSE <<>>

getDestinationId(cat, destinationText, tripType) ==
  LET destinations == DestinationsFor(cat, tripType)
      P(d) == TextMatches(d, destinationText)
      i == FindIndex(destinations, P)
  IN  IF i = 0 \/ destinations[i].value = ""
        THEN DefaultDestinationId
        ELSE destinations[i].value

Opt(v, t) == [value |-> v, text |-> t]

\* Catalogs as scrapeCatalog writes them: option values and trimmed texts.
TripTypesDaily == <<Opt("Viajes Por Día", "Viajes Por Día"),
                    Opt("Anual Multiviaje", "Anual Multiviaje")>>

DestinationsDaily ==
  ("Viajes Por Día" :> <<Opt("3", "Europa"), Opt("4", "Resto del Mundo")>>) @@
  ("Anual Multiviaje" :> <<Opt("5", "Mundial")>>)

\* the site lists regions with overlapping names for some products
DestinationsOverlap ==
  ("Viajes Por Día" :> <<Opt("7", "Europa"), Opt("8", "Europa y Mediterráneo")>>) @@
  ("Anual Multiviaje" :> <<Opt("9", "Mundial"), Opt("10", "Mundial sin USA")>>)

OriginsPlain == <<Opt("160", "Panamá"), Opt("229", "Venezuela")>>
OriginsOverlap == <<Opt("151", "Niger"), Opt("152", "Nigeria"), Opt("160", "Panamá")>>
OriginsNoPanama == <<Opt("10", "Argentina"), Opt("229", "Venezuela")>>

Catalogs ==
  { [tripTypes |-> TripTypesDaily, origins |-> o, destinations |-> d] :
      o \in {OriginsPlain, OriginsOverlap, OriginsNoPanama},
      d \in {DestinationsDaily, DestinationsOverlap} }

TripTypeInputs == {"Viajes Por Día", "Anual Multiviaje", "Semanal"}
OriginInputs == {"Panamá", "Niger", "Nigeria", "Venezuela", "Atlantis"}
DestinationInputs == {"Europa", "Europa y Mediterráneo", "Mundial", "Mundial sin USA", "Luna"}

QuoteConfigs ==
  [tripType : TripTypeInputs, origin : OriginInputs, destination : DestinationInputs]

\* outcome of the two fetch calls and of response.json()
RemoteOutcomes == {"html", "httpError", "noHtml"}

MaxApiCalls == 2

\* loadCatalog(): the newest data/catalog-*.json, or throws when there is none
loadCatalog(dir) == dir

\* generateQuote(config) of the API client, the whole try/catch.
ApiGenerateQuote(config, remote) ==
  /\ Len(sentReqs) < MaxApiCalls
  /\ LET cat == IF catalog = NoCatalog THEN loadCatalog(dataDir) ELSE catalog
     IN  IF cat = NoCatalog
           THEN \* loadCatalog threw: caught, nothing was sent
                /\ catalog' = catalog
                /\ apiLast' = [called |-> TRUE, config |-> config, resolved |-> FALSE,
                               originId |-> NULL, destinationId |-> NULL,
                               tripTypeValue |-> NULL, sent |-> FALSE]
                /\ apiResult' = [success |-> FALSE, error |-> "No se encontró archivo de catálogo"]
                /\ sentReqs' = sentReqs
           ELSE LET originId == getOriginId(cat, config.origin)
                    destinationId == getDestinationId(cat, config.destination, config.tripType)
                    tripTypeValue == getTripTypeValue(cat, config.tripType)
                IN  /\ catalog' = cat
                    /\ apiLast' = [called |-> TRUE, config |-> config, resolved |-> TRUE,
                                   originId |-> originId,
                                   destinationId |-> destinationId,
                                   tripTypeValue |-> tripTypeValue, sent |-> TRUE]
                    /\ sentReqs' = Append(sentReqs,
                                     [product |-> tripTypeValue, origin |-> originId,
                                      destination |-> destinationId, agent |-> DefaultAgent])
                    /\ apiResult' =
                         CASE remote = "html" -> [success |-> TRUE, error |-> NULL]
                           [] remote = "httpError" ->
                                [success |-> FALSE, error |-> "La llamada a la API falló"]
                           [] OTHER ->
                                [success |-> FALSE, error |-> "La respuesta no contiene HTML"]
  /\ UNCHANGED dataDir
  /\ UNCHANGED <<pidVars, lbVars, ppVars, botVars, pqVars, catVars, opsVars, scVars, qfVars>>

StartApi ==
  /\ dataDir \in Catalogs \cup {NoCatalog}
  /\ catalog = NoCatalog
  /\ apiLast = NoCall
  /\ apiResult = NoCall
  /\ sentReqs = <<>>

IdleApi ==
  /\ dataDir = NoCatalog
  /\ catalog = NoCatalog
  /\ apiLast = NoCall
  /\ apiResult = NoCall
  /\ sentReqs = <<>>

NextApi ==
  \E config \in QuoteConfigs, remote \in RemoteOutcomes : ApiGenerateQuote(config, remote)

----------------------------------------------------------------------------
(* Claims about the API client's resolution.                               *)

\* the catalog entries whose text equals the input exactly
ExactValues(seq, text) == {seq[i].value : i \in {j \in 1..Len(seq) : seq[j].text = text}}

ExactDestinationValues(cat, cfg) ==
  UNION { IF v \in DOMAIN cat.destinations
            THEN ExactValues(cat.destinations[v], cfg.destination)
            ELSE {} : v \in ExactValues(cat.tripTypes, cfg.tripType) }

\* C1: when tripType, origin and destination each equal exactly the text of a
\* catalog entry (the destination inside the list of that trip type), the
\* resolved values are those of the exactly-matching entries.
ResolutionExact ==
  (apiLast.called /\ apiLast.resolved) =>
    LET cfg == apiLast.config
    IN  ( /\ ExactValues(catalog.tripTypes, cfg.tripType) # {}
          /\ ExactValues(catalog.origins, cfg.origin) # {}
          /\ ExactDestinationValues(catalog, cfg) # {} )
        => /\ apiLast.tripTypeValue \in ExactValues(catalog.tripTypes, cfg.tripType)
           /\ apiLast.originId \in ExactValues(catalog.origins, cfg.origin)
           /\ apiLast.destinationId \in ExactDestinationValues(catalog, cfg)

AnyMatch(seq, P(_)) == \E i \in 1..Len(seq) : P(seq[i])

\* some part of the config matches no catalog entry, even loosely
ResolutionMiss(cat, cfg) ==
  LET PT(t) == TripTypeMatches(t, cfg.tripType)
      PO(o) == TextMatches(o, cfg.origin)
      PD(d) == TextMatches(d, cfg.destination)
  IN  \/ ~AnyMatch(cat.tripTypes, PT)
      \/ ~AnyMatch(cat.origins, PO)
      \/ ~AnyMatch(DestinationsFor(cat, cfg.tripType), PD)

\* C2: when tripType, origin or destination matches no catalog entry,
\* generateQuote returns success:false and sends nothing to the remote site.
NoSilentDefault ==
  (apiLast.called /\ apiLast.resolved /\ ResolutionMiss(catalog, apiLast.config)) =>
    /\ apiResult.success = FALSE
    /\ ~apiLast.sent

----------------------------------------------------------------------------
(* POST /purchase-form: mapping of the quote-page plan id.                 *)

\* planId.replace(/^D-/, 'M-') with the anchor dropped from the pattern text:
\* the first character alone is replaced.
mapPlanIdToPurchaseForm_FirstChar(id) ==
  IF OccursAt(id, "D", 1) THEN "M-" \o SubSeq(id, 2, Len(id)) ELSE id

\* planId.replace(/^D-/, 'M-')
mapPlanIdToPurchaseForm(id) ==
  IF OccursAt(id, "D-", 1) THEN "M-" \o SubSeq(id, 3, Len(id)) ELSE id

MaxTierLen == 2

\* the digit strings of length n
RECURSIVE DigitStrings(_)
DigitStrings(n) ==
  IF n = 0 THEN {""}
  ELSE {t \o CharAt(Digits, i) : t \in DigitStrings(n - 1), i \in 1..10}

\* the tiers <digits> of quote-page ids D-<tier>
Tiers == UNION {DigitStrings(n) : n \in 1..MaxTierLen}

QuotePlanIds == {"D-" \o t : t \in Tiers}

\* ids the secondary parsing strategy or a caller can produce
OtherPlanIds == {"M-30", "plan-1", "XD-5", "d-30", "D-"}

PlanIdInputs == QuotePlanIds \cup OtherPlanIds

MapPlanId ==
  /\ purchasePlanId = NULL
  /\ purchasePlanId' = mapPlanIdToPurchaseForm(planId)
  /\ UNCHANGED <<planId, remappedPlanId>>
  /\ UNCHANGED <<apiVars, lbVars, ppVars, botVars, pqVars, catVars, opsVars, scVars, qfVars>>

RemapPlanId ==
  /\ purchasePlanId # NULL
  /\ remappedPlanId = NULL
  /\ remappedPlanId' = mapPlanIdToPurchaseForm(purchasePlanId)
  /\ UNCHANGED <<planId, purchasePlanId>>
  /\ UNCHANGED <<apiVars, lbVars, ppVars, botVars, pqVars, catVars, opsVars, scVars, qfVars>>

StartPid ==
  /\ planId \in PlanIdInputs
  /\ purchasePlanId = NULL
  /\ remappedPlanId = NULL

IdlePid ==
  /\ planId = NULL
  /\ purchasePlanId = NULL
  /\ remappedPlanId = NULL

NextPid == MapPlanId \/ RemapPlanId

\* C5: D-<tier> maps to M-<tier> with the identical tier, distinct D-<tier>
\* inputs map to distinct results, and mapping the result again changes nothing.
PlanIdPrefixMapping ==
  (planId \in QuotePlanIds /\ purchasePlanId # NULL) =>
    /\ purchasePlanId = "M-" \o SubSeq(planId, 3, Len(planId))
    /\ \A other \in QuotePlanIds \ {planId} :
         mapPlanIdToPurchaseForm(other) # purchasePlanId
    /\ remappedPlanId # NULL => remappedPlanId = purchasePlanId

PlanIdMappedTwice ==
  /\ planId = "D-50"
  /\ purchasePlanId = "M-50"
  /\ remappedPlanId = "M-50"

----------------------------------------------------------------------------
(* Purchase form extraction: the label of one form element.                *)
(* An element is its static attributes and the labels around it:           *)
(*   labelFor     text of the label[for=id] element, NULL if there is none *)
(*   parentLabel  text of the parent when the parent is a LABEL, else NULL *)
(*   prevSiblings the previous element siblings, nearest first: the text   *)
(*                of a LABEL sibling, NULL for any other element           *)
(*   ancestors    the ancestors, nearest first: the tag, the text of the   *)
(*                first label inside (NULL if none) and its for attribute  *)
(* Texts are textContent already trimmed.                                  *)

HasBracket(text) == Includes(text, "[") \/ Includes(text, "]")

\* the denylist of internal field names of clickComprarAndScrapeForm
BotInternalName(name, type) ==
  \/ Includes(name, "[id]")
  \/ Includes(name, "[uuid]")
  \/ Includes(name, "[factor_wlc]")
  \/ Includes(name, "[factor_main]")
  \/ Includes(name, "[calculate_premium]")
  \/ Includes(name, "[free_passenger]")
  \/ Includes(name, "[plan][id]")
  \/ Includes(name, "[data_taxes]")
  \/ (Includes(name, "[riders][") /\ type # "checkbox")
  \/ name \in {"website_quotation[id]", "website_quotation[search_id]",
               "website_quotation[date_from]", "website_quotation[date_to]",
               "website_quotation[days]", "website_quotation[months]",
               "website_quotation[passengers]", "website_quotation[general_agent]",
               "website_quotation[product]", "website_quotation[origin]",
               "website_quotation[destination]"}

BotIsRiderCheckbox(el) ==
  /\ el.type = "checkbox"
  /\ el.name # NULL
  /\ Includes(el.name, "[riders]")
  /\ el.dataPremium # NULL

MaxLevels == 3

\* Strategy 3: the nearest previous sibling that is a LABEL with text
RECURSIVE SiblingLabel(_)
SiblingLabel(sibs) ==
  IF Len(sibs) = 0 THEN NULL
  ELSE IF Head(sibs) # NULL /\ Head(sibs) # "" THEN Head(sibs)
       ELSE SiblingLabel(Tail(sibs))

\* Strategy 4: a label inside one of the nearest ancestors
RECURSIVE AncestorLabel(_, _, _, _)
AncestorLabel(anc, level, id, seenFieldset) ==
  IF level > Len(anc) \/ level > MaxLevels \/ anc[level].tag \in {"FORM", "BODY"}
    THEN NULL
  ELSE IF anc[level].tag = "FIELDSET" /\ seenFieldset
    THEN NULL
  ELSE LET a == anc[level]
       IN  IF /\ a.label # NULL
              /\ a.label # ""
              /\ ~HasBracket(a.label)
              /\ (a.labelFor = NULL \/ a.labelFor = "" \/ a.labelFor = id)
             THEN a.label
             ELSE AncestorLabel(anc, level + 1, id,
                                seenFieldset \/ a.tag = "FIELDSET")

\* the label strategies evaluated in the page, in order
BotFindLabel(el) ==
  LET id == IF el.id = NULL THEN "" ELSE el.id
  IN  IF /\ id # ""
         /\ el.labelFor # NULL
         /\ el.labelFor # ""
         /\ ~HasBracket(el.labelFor)
         /\ Len(el.labelFor) < 100
        THEN el.labelFor
      ELSE IF el.parentLabel # NULL /\ el.parentLabel # ""
        THEN el.parentLabel
      ELSE IF SiblingLabel(el.prevSiblings) # NULL
        THEN SiblingLabel(el.prevSiblings)
      ELSE AncestorLabel(el.ancestors, 1, id, FALSE)

\* s.replace(/website.*?quotation/gi, '')
RECURSIVE RemoveWebsiteQuotation(_)
RemoveWebsiteQuotation(s) ==
  LET low == ToLowerCase(s)
      EndAt(i) == IndexOfFrom(low, "quotation", i + 7)
      hits == {i \in 1..Len(s) :
                 /\ OccursAt(low, "website", i)
                 /\ EndAt(i) # 0
                 /\ ~Includes(SubSeq(s, i + 7, EndAt(i) - 1), "\n")}
  IN  IF hits = {} THEN s
      ELSE LET i == CHOOSE h \in hits : \A k \in hits : h <= k
           IN  SubSeq(s, 1, i - 1) \o
               RemoveWebsiteQuotation(SubSeq(s, EndAt(i) + 9, Len(s)))

\* (s.match(/[\[\]{}]/g) || []).length
CountSpecial(s) == Cardinality({i \in 1..Len(s) : CharAt(s, i) \in {"[", "]", "{", "}"}})

\* the clean-up of the raw label text
BotCleanLabel(rawLabel) ==
  LET c1 == Trim(RemoveBracketed(rawLabel))
      c2 == Trim(RemoveWebsiteQuotation(c1))
  IN  IF Len(c2) > 50 \/ CountSpecial(c2) > 2 THEN NULL ELSE c2

\* the fallback field-name mapping of clickComprarAndScrapeForm, in key order
BotFieldNameMapping ==
  << <<"nombre", "Nombre">>, <<"apellido", "Apellido">>, <<"genero", "Género">>,
     <<"pais", "País">>, <<"email", "Email">>, <<"telefono", "Teléfono">>,
     <<"codigo", "Código País">>, <<"fecha", "Fecha de Nacimiento">>,
     <<"nacimiento", "Fecha de Nacimiento">>, <<"edad", "Edad">>,
     <<"identificacion", "Tipo de Identificación">>, <<"numero", "Número">>,
     <<"condiciones", "Condiciones Médicas">>, <<"medicas", "Condiciones Médicas">>,
     <<"prima", "Prima Total a Pagar">>, <<"agente", "Agente/Agencia">>,
     <<"contacto", "Contacto de Emergencia">>,
     <<"emergencia", "Contacto de Emergencia">> >>

\* the value of the first key of mapping that nameLower contains, NULL if none
FirstContainedKey(mapping, nameLower) ==
  LET hits == {i \in 1..Len(mapping) : Includes(nameLower, mapping[i][1])}
  IN  IF hits = {} THEN NULL
      ELSE mapping[CHOOSE i \in hits : \A j \in hits : i <= j][2]

\* the fallback after the label try/catch: if (!label && name) { ... }
BotFallbackLabel(el, label) ==
  IF (label = NULL \/ label = "") /\ el.name # NULL
    THEN LET mapped == FirstContainedKey(BotFieldNameMapping, ToLowerCase(el.name))
         IN  IF mapped # NULL THEN mapped ELSE label
    ELSE label

BotLabel(el) ==
  LET rawLabel == BotFindLabel(el)
      label == IF rawLabel = NULL THEN NULL ELSE BotCleanLabel(rawLabel)
  IN  BotFallbackLabel(el, label)

\* options: null (no extracted list holds an option with a null value)
NoOptions == <<[value |-> NULL, text |-> NULL]>>

\* the options of a select: the option elements with a value attribute and text
RECURSIVE ExtractOptions(_)
ExtractOptions(optionElements) ==
  IF Len(optionElements) = 0 THEN <<>>
  ELSE LET o == Head(optionElements)
           rest == ExtractOptions(Tail(optionElements))
       IN  IF o.value # NULL /\ o.text # NULL /\ o.text # ""
             THEN <<[value |-> o.value, text |-> Trim(o.text)]>> \o rest
             ELSE rest

\* the condition of the branch that pushes the field without a label
BotSkipsLabel(el) ==
  \/ el.type = "hidden"
  \/ /\ el.name # NULL
     /\ ~BotIsRiderCheckbox(el)
     /\ BotInternalName(el.name, el.type)

\* one iteration of the field loop of clickComprarAndScrapeForm
BotExtractField(el) ==
  LET skip == BotSkipsLabel(el)
  IN  [tag |-> el.tag, type |-> el.type, name |-> el.name, id |-> el.id,
       placeholder |-> el.placeholder,
       label |-> IF skip THEN NULL ELSE BotLabel(el),
       required |-> el.required, value |-> el.value,
       options |-> IF ~skip /\ el.tag = "select"
                     THEN ExtractOptions(el.options) ELSE NoOptions,
       dataPremium |-> IF el.dataPremium = "" THEN NULL ELSE el.dataPremium]

\* the same iteration when the label lookup throws inside its try block
BotExtractField_LabelThrown(el) ==
  [BotExtractField(el) EXCEPT
     !.label = IF BotSkipsLabel(el) THEN NULL ELSE BotFallbackLabel(el, NULL)]

\* the label lookup of POST /purchase-form
RouteLabel(el) ==
  LET found == IF el.id # NULL /\ el.labelFor # NULL THEN el.labelFor
               ELSE IF el.parentLabel # NULL THEN el.parentLabel
               ELSE IF Len(el.prevSiblings) > 0 /\ Head(el.prevSiblings) # NULL
                      THEN Head(el.prevSiblings)
               ELSE NULL
  IN  IF found = NULL \/ found = "" THEN NULL ELSE found

\* one iteration of the field loop of POST /purchase-form (no dataPremium key)
RouteExtractField(el) ==
  [tag |-> el.tag, type |-> el.type, name |-> el.name, id |-> el.id,
   placeholder |-> el.placeholder, label |-> RouteLabel(el),
   required |-> el.required, value |-> el.value,
   options |-> IF el.tag = "select" THEN ExtractOptions(el.options) ELSE NoOptions,
   dataPremium |-> NULL]

----------------------------------------------------------------------------
(* Purchase page: label inference.                                         *)

cleanLabel(text) ==
  LET c1 == Trim(RemoveBracketed(text))
      c2 == Trim(RemoveAllCI(c1, "website_quotation"))
      c3 == Trim(RemoveWordDigits(c2, "quotes"))
      c4 == Trim(RemoveWordDigits(c3, "breakdowns"))
      c5 == Trim(RemoveWordDigits(c4, "riders"))
      c6 == Trim(RemoveAll(c5, "passenger"))
      c7 == Trim(RemoveAll(c6, "contact"))
      c8 == Trim(ReplaceChar(c7, "_", " "))
      c9 == Trim(CollapseSpaces(c8))
  IN  CapitalizeWords(c9, TRUE)

\* fieldNameMapping of the purchase page, in key order
fieldNameMapping ==
  << <<"first_name", "Nombre">>, <<"last_name", "Apellido">>,
     <<"nombre", "Nombre">>, <<"apellido", "Apellido">>,
     <<"gender", "Género">>, <<"genero", "Género">>,
     <<"country", "País">>, <<"pais", "País">>, <<"email", "Email">>,
     <<"phone_country", "Código País">>, <<"phone_number", "Teléfono">>,
     <<"telefono", "Teléfono">>, <<"codigo", "Código País">>,
     <<"medical_condition", "Condiciones Médicas">>,
     <<"condiciones", "Condiciones Médicas">>, <<"medicas", "Condiciones Médicas">>,
     <<"birthday_day", "Día de Nacimiento">>, <<"birthday_month", "Mes de Nacimiento">>,
     <<"birthday_year", "Año de Nacimiento">>, <<"fecha", "Fecha de Nacimiento">>,
     <<"nacimiento", "Fecha de Nacimiento">>, <<"age", "Edad">>, <<"edad", "Edad">>,
     <<"identification_type", "Tipo de Identificación">>,
     <<"identification_number", "Número de Identificación">>,
     <<"identificacion", "Tipo de Identificación">>, <<"numero", "Número">>,
     <<"premium", "Prima Total a Pagar">>, <<"prima", "Prima Total a Pagar">>,
     <<"agent_fullname", "Agente/Agencia">>, <<"agente", "Agente/Agencia">>,
     <<"contacto", "Contacto de Emergencia">>,
     <<"emergencia", "Contacto de Emergencia">> >>

\* fieldNameMapping[part], NULL when part is not a key
MappingValue(part) ==
  LET hits == {i \in 1..Len(fieldNameMapping) : fieldNameMapping[i][1] = part}
  IN  IF hits = {} THEN NULL ELSE fieldNameMapping[CHOOSE i \in hits : TRUE][2]

\* the loop over nameParts: the value of the first part that is a key
FirstMappedPart(parts) ==
  LET hits == {i \in 1..Len(parts) : MappingValue(parts[i]) # NULL}
  IN  IF hits = {} THEN NULL
      ELSE MappingValue(parts[CHOOSE i \in hits : \A j \in hits : i <= j])

getFieldLabel(field) ==
  LET useLabel == /\ field.label # NULL
                  /\ Trim(field.label) # ""
                  /\ ~Includes(field.label, "[")
                  /\ ~Includes(field.label, "website_quotation")
      cleaned == cleanLabel(field.label)
  IN  IF useLabel /\ Len(cleaned) > 0 /\ Len(cleaned) < 50
        THEN cleaned
      ELSE IF field.placeholder # NULL /\ Trim(field.placeholder) # ""
        THEN field.placeholder
      ELSE IF field.name # NULL
        THEN LET nameLower == ToLowerCase(field.name)
                 byKey == FirstContainedKey(fieldNameMapping, nameLower)
                 byPart == FirstMappedPart(SplitParts(nameLower))
             IN  IF byKey # NULL THEN byKey
                 ELSE IF byPart # NULL THEN byPart
                 ELSE cleanLabel(field.name)
      ELSE IF field.id # NULL THEN field.id
      ELSE "Campo"


\* form elements of the remote purchase page
LbNames ==
  {NULL, "email", "a[b][first_name]",
   "website_quotation[quotes][0][breakdowns][0][passenger][first_name]",
   "website_quotation[quotes][0][breakdowns][0][passenger][phone_country]",
   "website_quotation[quotes][0][breakdowns][1][passenger][weight]",
   "website_quotation[quotes][0][breakdowns][0][riders][1]",
   "website_quotation[premium]"}

LbIds == {NULL, "first_name_0", "passengers-age[0]"}

LbPlaceholders == {NULL, "Ingrese su nombre", "DD/MM/AAAA [opcional]"}

\* tag and type attribute of the elements (a select has no type attribute)
LbKinds == {<<"input", "text">>, <<"input", "checkbox">>, <<"input", "hidden">>,
            <<"select", NULL>>}

\* the option elements of a select: one without a value attribute, one
\* without text, two regular ones
LbOptionElements ==
  << [value |-> NULL, text |-> "Seleccione"], [value |-> "X", text |-> ""],
     [value |-> "M", text |-> " Masculino "], [value |-> "F", text |-> "Femenino"] >>

LongLabelText == "Acepto las condiciones generales del seguro de viaje"

Anc(tag, label, labelFor) == [tag |-> tag, label |-> label, labelFor |-> labelFor]

Dom(labelFor, parentLabel, prevSiblings, ancestors) ==
  [labelFor |-> labelFor, parentLabel |-> parentLabel,
   prevSiblings |-> prevSiblings, ancestors |-> ancestors]

LbDoms ==
  { Dom(NULL, NULL, <<>>, <<Anc("DIV", NULL, NULL), Anc("FORM", NULL, NULL)>>),
    Dom("Nombre", NULL, <<>>, <<Anc("DIV", "Nombre", "first_name_0")>>),
    Dom("website_quotation[quotes][0][first_name]", NULL, <<>>,
        <<Anc("DIV", "Otro campo", "other_id"),
          Anc("FIELDSET", "Nombre del pasajero", NULL)>>),
    Dom(NULL, "Cobertura de equipaje", <<>>, <<Anc("LABEL", NULL, NULL)>>),
    Dom(NULL, "Deducible [ver nota [1]]", <<>>, <<Anc("LABEL", NULL, NULL)>>),
    Dom(NULL, NULL, <<NULL, "Email [opcional]">>, <<Anc("DIV", "Email [opcional]", NULL)>>),
    Dom(NULL, NULL, <<>>, <<Anc("DIV", NULL, NULL), Anc("DIV", "Edad", NULL)>>),
    Dom(NULL, NULL, <<LongLabelText>>,
        <<Anc("DIV", NULL, NULL), Anc("DIV", "Condiciones", NULL)>>) }

LbElements ==
  { [tag |-> k[1], type |-> k[2], name |-> n, id |-> i, placeholder |-> ph,
     required |-> FALSE, value |-> NULL, dataPremium |-> dp,
     options |-> IF k[1] = "select" THEN LbOptionElements ELSE <<>>,
     labelFor |-> d.labelFor, parentLabel |-> d.parentLabel,
     prevSiblings |-> d.prevSiblings, ancestors |-> d.ancestors] :
      k \in LbKinds, n \in LbNames, i \in LbIds, ph \in LbPlaceholders,
      dp \in {NULL, "5.50"}, d \in LbDoms }

Run(via, thrown, success) == [via |-> via, thrown |-> thrown, success |-> success]

NotRun == Run("none", "none", TRUE)

\* the reads of one loop iteration that can throw: an attribute read, which
\* is outside every try block of the loop, or the label lookup, inside one
Throws == {"none", "attribute", "label"}

\* the field loop of clickComprarAndScrapeForm reaches the element; a throw
\* of an attribute read leaves the loop for the catch of the method
ExtractWithBot(thrown) ==
  /\ lbRun = NotRun
  /\ lbField' = CASE thrown = "attribute" -> NoField
                  [] thrown = "label" -> BotExtractField_LabelThrown(lbElement)
                  [] OTHER -> BotExtractField(lbElement)
  /\ lbRun' = Run("bot", thrown, thrown # "attribute")
  /\ UNCHANGED <<lbElement, lbLabel>>
  /\ UNCHANGED <<apiVars, pidVars, ppVars, botVars, pqVars, catVars, opsVars, scVars, qfVars>>

\* the field loop of POST /purchase-form reaches the element; a throw of an
\* attribute read ends the request with status 500
ExtractWithRoute(thrown) ==
  /\ lbRun = NotRun
  /\ lbField' = CASE thrown = "attribute" -> NoField
                  [] thrown = "label" -> [RouteExtractField(lbElement) EXCEPT !.label = NULL]
                  [] OTHER -> RouteExtractField(lbElement)
  /\ lbRun' = Run("route", thrown, thrown # "attribute")
  /\ UNCHANGED <<lbElement, lbLabel>>
  /\ UNCHANGED <<apiVars, pidVars, ppVars, botVars, pqVars, catVars, opsVars, scVars, qfVars>>

\* the purchase page computes the display label of the field
InferLabel ==
  /\ lbField # NoField
  /\ lbLabel = NULL
  /\ lbLabel' = getFieldLabel(lbField)
  /\ UNCHANGED <<lbElement, lbField, lbRun>>
  /\ UNCHANGED <<apiVars, pidVars, ppVars, botVars, pqVars, catVars, opsVars, scVars, qfVars>>

StartLb ==
  /\ lbElement \in LbElements
  /\ lbField = NoField
  /\ lbLabel = NULL
  /\ lbRun = NotRun

IdleLb ==
  /\ lbElement = NoField
  /\ lbField = NoField
  /\ lbLabel = NULL
  /\ lbRun = NotRun

NextLb ==
  \/ \E thrown \in Throws : ExtractWithBot(thrown)
  \/ \E thrown \in Throws : ExtractWithRoute(thrown)
  \/ InferLabel

\* C23: an extraction that reaches an element emits one field for it, with
\* the element's tag, name and id; the field of a hidden element or of an
\* element with a denylisted name has label null, except a rider checkbox,
\* whose label is the one the label lookup of the extraction gives.
InternalFieldsUnlabelled ==
  (lbRun.via # "none" /\ lbRun.thrown = "none") =>
    /\ lbField # NoField
    /\ lbField.tag = lbElement.tag
    /\ lbField.name = lbElement.name
    /\ lbField.id = lbElement.id
    /\ IF BotIsRiderCheckbox(lbElement)
         THEN lbField.label = IF lbRun.via = "bot" THEN BotLabel(lbElement)
                                                   ELSE RouteLabel(lbElement)
         ELSE (\/ lbElement.type = "hidden"
               \/ /\ lbElement.name # NULL
                  /\ BotInternalName(lbElement.name, lbElement.type))
              => lbField.label = NULL

\* the same property for the fields clickComprarAndScrapeForm emits
BotInternalFieldsUnlabelled ==
  lbRun.via = "bot" => InternalFieldsUnlabelled

\* C24: in every extracted field options is non-null exactly when the tag is
\* select, the rider premium is non-null only for a rider checkbox, and a
\* rider checkbox extracted by POST /purchase-form carries the premium of
\* its element.
PurchaseFieldInvariant ==
  lbField # NoField =>
    /\ (lbField.options # NoOptions) <=> (lbField.tag = "select")
    /\ lbField.dataPremium # NULL => BotIsRiderCheckbox(lbElement)
    /\ (lbRun.via = "route" /\ BotIsRiderCheckbox(lbElement))
         => lbField.dataPremium = lbElement.dataPremium

\* options is a list exactly for a select
OptionsIffSelect ==
  lbField # NoField => ((lbField.options # NoOptions) <=> (lbField.tag = "select"))

\* a rider checkbox extracted by POST /purchase-form keeps its premium
RoutePremiumDelivered ==
  (lbField # NoField /\ lbRun.via = "route" /\ BotIsRiderCheckbox(lbElement))
    => lbField.dataPremium = lbElement.dataPremium

\* the candidates of the four DOM strategies, in the order they are tried
LabelCandidates(el) ==
  << IF el.id # NULL /\ el.id # "" THEN el.labelFor ELSE NULL,
     el.parentLabel,
     SiblingLabel(el.prevSiblings),
     AncestorLabel(el.ancestors, 1, IF el.id = NULL THEN "" ELSE el.id, FALSE) >>

\* the candidate is one the code keeps: it has text, it passes the test of
\* strategy 1 when it comes from it, and the clean-up does not discard it
CandidatePasses(candidate, strategy) ==
  /\ candidate # NULL
  /\ candidate # ""
  /\ strategy = 1 => (~HasBracket(candidate) /\ Len(candidate) < 100)
  /\ BotCleanLabel(candidate) \notin {NULL, ""}

\* the label of the first candidate that passes, else the field-name mapping
FirstPassingLabel(el) ==
  LET passing == {i \in 1..4 : CandidatePasses(LabelCandidates(el)[i], i)}
  IN  IF passing = {} THEN BotFallbackLabel(el, NULL)
      ELSE BotCleanLabel(LabelCandidates(el)[CHOOSE i \in passing :
                                               \A j \in passing : i <= j])

\* C25: the label clickComprarAndScrapeForm gives a field that goes through
\* label inference is the cleaned text of the first candidate, in the order
\* label-for-id, wrapping label, preceding sibling label, ancestor search,
\* that passes the rejection rule, and the field-name mapping if none does.
FirstPassingCandidateWins ==
  (lbRun = Run("bot", "none", TRUE) /\ ~BotSkipsLabel(lbElement)) =>
    \/ lbField.label = FirstPassingLabel(lbElement)
    \/ /\ lbField.label \in {NULL, ""}
       /\ FirstPassingLabel(lbElement) \in {NULL, ""}

\* C26: when a read of the element throws during an extraction, the field is
\* still emitted, without a label from the DOM, and the extraction succeeds.
FieldFailureIsolated ==
  lbRun.thrown # "none" =>
    /\ lbRun.success
    /\ lbField # NoField
    /\ lbField.label = IF lbRun.via = "bot" /\ ~BotSkipsLabel(lbElement)
                         THEN BotFallbackLabel(lbElement, NULL) ELSE NULL

\* the same property for a throw of the label lookup alone
LabelFailureIsolated ==
  lbRun.thrown = "label" => FieldFailureIsolated

\* C6: the label produced by extraction followed by getFieldLabel never
\* contains "[" or "]".
LabelHasNoBrackets ==
  lbLabel # NULL => ~HasBracket(lbLabel)

\* the element has no label element around it and no placeholder text
NoDomLabel(el) ==
  /\ el.labelFor = NULL
  /\ el.parentLabel = NULL
  /\ \A i \in 1..Len(el.prevSiblings) : el.prevSiblings[i] = NULL
  /\ \A i \in 1..Len(el.ancestors) : el.ancestors[i].label = NULL
  /\ el.placeholder = NULL

\* the segments of a bracket-path name
BracketTokens(name) == SplitOn(ToLowerCase(name), {"[", "]"}, "")

\* the dictionary values of the segments of name that are dictionary keys
DictionaryValues(name) ==
  LET tokens == BracketTokens(name)
  IN  {MappingValue(tokens[i]) : i \in {j \in 1..Len(tokens) : MappingValue(tokens[j]) # NULL}}

\* C7: a field with no DOM label whose bracket-path name has a segment that
\* is a dictionary key gets the dictionary value of that segment as its label.
DictionaryTokenLabel ==
  ( /\ lbLabel # NULL
    /\ NoDomLabel(lbElement)
    /\ lbElement.name # NULL
    /\ DictionaryValues(lbElement.name) # {} )
  => lbLabel \in DictionaryValues(lbElement.name)


----------------------------------------------------------------------------
(* Purchase page: load, grouping, rider toggles and the premium engine.    *)
(* Amounts are in cents.                                                   *)

NaN == -1

\* s.replace(/[^0-9.]/g, '')
RECURSIVE KeepNumeric(_)
KeepNumeric(s) ==
  IF Len(s) = 0 THEN ""
  ELSE (IF IsDigit(CharAt(s, 1)) \/ CharAt(s, 1) = "." THEN CharAt(s, 1) ELSE "") \o
       KeepNumeric(SubSeq(s, 2, Len(s)))

\* parseFloat of an unsigned decimal with at most two decimals, in cents:
\* the longest prefix digits[.digits]; NaN when it has no digit
parseFloat(text) ==
  LET s == TrimStart(text)
      e1 == EndOfDigits(s, 1)
      intPart == SubSeq(s, 1, e1 - 1)
      hasDot == e1 <= Len(s) /\ CharAt(s, e1) = "."
      e2 == IF hasDot THEN EndOfDigits(s, e1 + 1) ELSE e1
      frac == IF hasDot THEN SubSeq(s, e1 + 1, e2 - 1) ELSE ""
      frac2 == SubSeq(frac \o "00", 1, 2)
  IN  IF intPart = "" /\ frac = "" THEN NaN
      ELSE 100 * ParseDigits(intPart) + ParseDigits(frac2)

\* (cents / 100).toFixed(2)
toFixed2(cents) ==
  IntToStr(cents \div 100) \o "." \o
  IntToStr((cents % 100) \div 10) \o IntToStr(cents % 10)

Has(values, key) == key \in DOMAIN values

\* values[key] || fallback
ValueOr(values, key, fallback) ==
  IF Has(values, key) /\ values[key] # "" THEN values[key] ELSE fallback

\* {...values, [key]: value}
Put(values, key, value) ==
  [k \in DOMAIN values \cup {key} |-> IF k = key THEN value ELSE values[k]]

\* delete values[key]
Remove(values, key) == [k \in DOMAIN values \ {key} |-> values[k]]

NameIncludes(field, text) == field.name # NULL /\ Includes(field.name, text)

IsRiderField(field) == field.type = "checkbox" /\ NameIncludes(field, "[riders]")

\* the test that finds the premium field
IsPremiumName(field) ==
  /\ field.name # NULL
  /\ \/ Includes(ToLowerCase(field.name), "premium")
     \/ Includes(ToLowerCase(field.name), "prima")
  /\ ~Includes(field.name, "[calculate_premium]")

\* initialValues of the load effect
InitialValues(fields) ==
  LET keep(f) == /\ f.name # NULL
                 /\ f.value # NULL /\ f.value # ""
                 /\ ~(f.type = "checkbox" /\ Includes(f.name, "[riders]"))
      idx == {i \in 1..Len(fields) : keep(fields[i])}
      last(n) == CHOOSE i \in idx : fields[i].name = n /\
                   \A j \in idx : fields[j].name = n => j <= i
  IN  [n \in {fields[i].name : i \in idx} |-> fields[last(n)].value]

\* foundBasePremium of the load effect
FoundBasePremium(fields) ==
  LET hit(f) == /\ f.name # NULL
                /\ f.type # "checkbox"
                /\ f.value # NULL /\ f.value # ""
                /\ IsPremiumName(f)
                /\ parseFloat(KeepNumeric(f.value)) > 0
      idx == {i \in 1..Len(fields) : hit(fields[i])}
  IN  IF idx = {} THEN 0
      ELSE parseFloat(KeepNumeric(fields[CHOOSE i \in idx : \A j \in idx : j <= i].value))

shouldDisplayField(field) ==
  IF field.type = "hidden" THEN FALSE
  ELSE IF NameIncludes(field, "[riders][") /\ field.type = "text" THEN FALSE
  ELSE IF IsRiderField(field) /\ field.label # NULL /\ field.label # "" THEN TRUE
  ELSE IF \/ NameIncludes(field, "[factor_wlc]")
          \/ NameIncludes(field, "[factor_main]")
          \/ NameIncludes(field, "[plan][id]")
          \/ NameIncludes(field, "[data_taxes]")
          \/ NameIncludes(field, "[calculate_premium]")
          \/ NameIncludes(field, "[free_passenger]") THEN FALSE
  ELSE IF \/ (NameIncludes(field, "[plan]") /\ ~NameIncludes(field, "[plan][id]"))
          \/ NameIncludes(field, "[agent]")
          \/ NameIncludes(field, "agent_fullname")
          \/ /\ field.name = "email"
             /\ field.label # NULL
             /\ Includes(ToLowerCase(field.label), "enviar") THEN FALSE
  ELSE IF (field.label = NULL \/ field.label = "") /\ ~field.required THEN FALSE
  ELSE TRUE

\* the capture of name.match(/\[breakdowns\]\[(\d+)\]/), NULL when no match
BreakdownIndex(name) ==
  LET pre == "[breakdowns]["
      EndAt(i) == EndOfDigits(name, i + Len(pre))
      hits == {i \in 1..Len(name) :
                 /\ OccursAt(name, pre, i)
                 /\ EndAt(i) > i + Len(pre)
                 /\ EndAt(i) <= Len(name)
                 /\ CharAt(name, EndAt(i)) = "]"}
  IN  IF hits = {} THEN NULL
      ELSE LET i == CHOOSE h \in hits : \A k \in hits : h <= k
           IN  SubSeq(name, i + Len(pre), EndAt(i) - 1)

\* the key built without the "+ 1" of the passenger number
PassengerKey_NoOffset(index) == "passenger-" \o IntToStr(ParseDigits(index))

\* `passenger-${parseInt(passengerIndex) + 1}`
PassengerKey(index) == "passenger-" \o IntToStr(ParseDigits(index) + 1)

\* the branch of the forEach body of groupFieldsByPassenger the field takes:
\* the key of its group, or "other" for otherFields
GroupKey(field) ==
  IF NameIncludes(field, "[breakdowns]")
    THEN IF BreakdownIndex(field.name) # NULL
           THEN PassengerKey(BreakdownIndex(field.name))
           ELSE "other"
  ELSE IF NameIncludes(field, "[contact]") THEN "contact"
  ELSE IF IsRiderField(field) THEN "beneficios"
  ELSE "other"

\* the members of S up to n, in increasing order
RECURSIVE OrderedIndices(_, _)
OrderedIndices(S, n) ==
  IF n = 0 THEN <<>>
  ELSE OrderedIndices(S, n - 1) \o (IF n \in S THEN <<n>> ELSE <<>>)

\* groupFieldsByPassenger(mainForm.fields.filter(f => f.type !== 'hidden')),
\* fields given by their index in mainForm.fields
groupFieldsByPassenger(fields) ==
  LET displayable == {i \in 1..Len(fields) :
                        fields[i].type # "hidden" /\ shouldDisplayField(fields[i])}
      keys == {GroupKey(fields[i]) : i \in displayable} \ {"other"}
      members(k) == {i \in displayable : GroupKey(fields[i]) = k}
  IN  [groups |-> [k \in keys |-> OrderedIndices(members(k), Len(fields))],
       otherFields |-> OrderedIndices(members("other"), Len(fields))]

NoGroups == [groups |-> <<>>, otherFields |-> <<>>]

InSeq(seq, x) == \E k \in 1..Len(seq) : seq[k] = x

PositionIn(seq, x) == CHOOSE k \in 1..Len(seq) : seq[k] = x

\* field i is rendered in the group with this key
InGroup(grouping, key, i) ==
  key \in DOMAIN grouping.groups /\ InSeq(grouping.groups[key], i)

\* renderField returns null for these names
RenderSkips(field) ==
  \/ NameIncludes(field, "[id]")
  \/ NameIncludes(field, "[uuid]")
  \/ NameIncludes(field, "[factor_wlc]")
  \/ NameIncludes(field, "[factor_main]")
  \/ NameIncludes(field, "[calculate_premium]")
  \/ NameIncludes(field, "[free_passenger]")
  \/ NameIncludes(field, "[plan][id]")
  \/ NameIncludes(field, "[data_taxes]")
  \/ field.type = "hidden"
  \/ /\ NameIncludes(field, "website_quotation[quotes][0][breakdowns][0][riders]")
     /\ (field.label = NULL \/ field.label = "")
     /\ field.type # "checkbox"

\* stateKey of a rider checkbox: field.id || field.name
StateKey(field) ==
  IF field.id # NULL THEN field.id
  ELSE IF field.name # NULL THEN field.name
  ELSE ""

\* isChecked of calculateTotalPremium and of the benefits rendering
RiderIsChecked(values, field) ==
  /\ Has(values, StateKey(field))
  /\ values[StateKey(field)] = field.value
  /\ values[StateKey(field)] # ""

calculateTotalPremium(values, fields, base) ==
  LET counted == {i \in 1..Len(fields) :
                    /\ IsRiderField(fields[i])
                    /\ fields[i].dataPremium # NULL
                    /\ RiderIsChecked(values, fields[i])
                    /\ parseFloat(fields[i].dataPremium) > 0}
      RECURSIVE Sum(_)
      Sum(S) == IF S = {} THEN 0
                ELSE LET i == CHOOSE x \in S : TRUE
                     IN  parseFloat(fields[i].dataPremium) + Sum(S \ {i})
  IN  base + Sum(counted)

\* the formValues after handleInputChange(fieldName, value, actualFieldName)
handleInputChange(values, fields, base, fieldName, value, actualFieldName) ==
  LET key == IF actualFieldName # NULL THEN actualFieldName ELSE fieldName
      newFormValues == IF value = "" THEN Remove(values, key) ELSE Put(values, key, value)
      KeyOf(f) == IF f.name # NULL THEN f.name ELSE f.id
      P(f) == KeyOf(f) = key
      fi == FindIndex(fields, P)
      Q(f) == IsPremiumName(f)
      pi == FindIndex(fields, Q)
  IN  IF fi # 0 /\ IsRiderField(fields[fi]) /\ pi # 0
        THEN Put(newFormValues, fields[pi].name,
                 "US$ " \o toFixed2(calculateTotalPremium(newFormValues, fields, base)))
        ELSE newFormValues


----------------------------------------------------------------------------
(* Purchase page: the remote forms considered, and the page's steps.       *)

MaxBreakdown == 10
MaxToggles == 4
MaxEdits == 1

NoLabelDom == Dom(NULL, NULL, <<>>, <<Anc("DIV", NULL, NULL), Anc("FORM", NULL, NULL)>>)

LabelForDom(text) == Dom(text, NULL, <<>>, <<Anc("DIV", text, NULL)>>)

WrappedDom(text) == Dom(NULL, text, <<>>, <<Anc("LABEL", text, NULL)>>)

El(type, name, id, value, dataPremium, required, d) ==
  [tag |-> "input", type |-> type, name |-> name, id |-> id, placeholder |-> NULL,
   required |-> required, value |-> value, dataPremium |-> dataPremium,
   options |-> <<>>,
   labelFor |-> d.labelFor, parentLabel |-> d.parentLabel,
   prevSiblings |-> d.prevSiblings, ancestors |-> d.ancestors]

PassengerName(P, leaf) ==
  "website_quotation[quotes][0][breakdowns][" \o IntToStr(P) \o "][passenger][" \o leaf \o "]"

\* the name of rider R of breakdown P; without the breakdown path when flat
RiderName(flat, P, R) ==
  IF flat THEN "website_quotation[riders][" \o IntToStr(R) \o "]"
  ELSE "website_quotation[quotes][0][breakdowns][" \o IntToStr(P) \o "][riders][" \o
       IntToStr(R) \o "]"

BreakdownIndexes == {0, 2, MaxBreakdown}

RemoteForm(flat, withIds, P, premiumText) ==
  << El("hidden", "website_quotation[id]", NULL, "77", NULL, FALSE, NoLabelDom),
     El("text", PassengerName(0, "first_name"), "first_name_0", NULL, NULL, TRUE,
        LabelForDom("Nombre")),
     El("text", PassengerName(P, "last_name"), "last_name_p", NULL, NULL, TRUE,
        LabelForDom("Apellido")),
     El("text", "website_quotation[contact][phone_number]", "contact_phone", NULL,
        NULL, FALSE, LabelForDom("Teléfono")),
     El("checkbox", RiderName(flat, 0, 1), IF withIds THEN "rider_17" ELSE NULL,
        "17", "5.50", FALSE, WrappedDom("Cancelación de viaje")),
     El("checkbox", RiderName(flat, P, 2), IF withIds THEN "rider_18" ELSE NULL,
        "18", "10.00", FALSE, WrappedDom("Deportes extremos")),
     El("text", "website_quotation[premium]", "total_premium", premiumText, NULL,
        FALSE, LabelForDom("Prima Total")),
     El("checkbox", "website_quotation[terms]", "terms", NULL, NULL, TRUE,
        WrappedDom("Acepto los términos")),
     El("text", "website_quotation[breakdowns][count]", "count", "2", NULL, FALSE,
        LabelForDom("Cantidad")),
     El("text", PassengerName(1, "weight"), NULL, NULL, NULL, FALSE, NoLabelDom) >>

\* fields the page does not display: a second premium, a computed factor, the
\* agent, and an input without a name
InternalFields ==
  << El("hidden", "website_quotation[quotes][0][premium]", NULL, "95.00", NULL,
        FALSE, NoLabelDom),
     El("text", "website_quotation[factor_wlc]", "factor_wlc", "1.0", NULL, FALSE,
        LabelForDom("Factor")),
     El("text", "website_quotation[agent][code]", "agent_code", "A1", NULL, TRUE,
        LabelForDom("Agente")),
     El("text", NULL, "search", NULL, NULL, FALSE, LabelForDom("Buscar")) >>

RemoteForms ==
  {RemoteForm(flat, withIds, P, "US$ 100.00") :
     flat \in BOOLEAN, withIds \in BOOLEAN, P \in BreakdownIndexes}
  \cup {RemoteForm(TRUE, FALSE, 0, "US$ 1,250.75")}
  \cup {RemoteForm(TRUE, FALSE, 0, "US$ 100.00") \o InternalFields}

EditValues == {"Ana", ""}

\* no FormData: handleSubmit is not the step just taken
NoPayload == [built |-> FALSE, entries |-> <<>>]

\* POST /purchase-form extracts the form; the results page stores the response
StoreFromRoute ==
  /\ ppStored = <<>>
  /\ ppStored' = [i \in 1..Len(ppRemote) |-> RouteExtractField(ppRemote[i])]
  /\ UNCHANGED <<ppRemote, ppLoaded, formValues, basePremium, ppGroups, ppSelected,
                 ppToggles, ppEdits, ppUnticked, ppPayload>>
  /\ UNCHANGED ppEntered
  /\ UNCHANGED <<apiVars, pidVars, lbVars, botVars, pqVars, catVars, opsVars, scVars, qfVars>>

\* the route built on clickComprarAndScrapeForm extracts the form
StoreFromBot ==
  /\ ppStored = <<>>
  /\ ppStored' = [i \in 1..Len(ppRemote) |-> BotExtractField(ppRemote[i])]
  /\ UNCHANGED <<ppRemote, ppLoaded, formValues, basePremium, ppGroups, ppSelected,
                 ppToggles, ppEdits, ppUnticked, ppPayload>>
  /\ UNCHANGED ppEntered
  /\ UNCHANGED <<apiVars, pidVars, lbVars, botVars, pqVars, catVars, opsVars, scVars, qfVars>>

\* the load effect of the purchase page, and the first render
LoadPurchaseForm ==
  /\ ppStored # <<>>
  /\ ~ppLoaded
  /\ ppLoaded' = TRUE
  /\ formValues' = InitialValues(ppStored)
  /\ basePremium' = FoundBasePremium(ppStored)
  /\ ppGroups' = groupFieldsByPassenger(ppStored)
  /\ UNCHANGED <<ppRemote, ppStored, ppSelected, ppToggles, ppEdits, ppUnticked,
                 ppPayload>>
  /\ UNCHANGED ppEntered
  /\ UNCHANGED <<apiVars, pidVars, lbVars, botVars, pqVars, catVars, opsVars, scVars, qfVars>>

\* the user clicks a checkbox of the benefits section
ToggleBenefit(i) ==
  LET field == ppStored[i]
      fieldIndex == PositionIn(ppGroups.groups["beneficios"], i) - 1
      stateKey == IF field.id # NULL THEN field.id
                  ELSE IF field.name # NULL THEN field.name
                  ELSE "beneficio-" \o IntToStr(fieldIndex)
      isChecked == /\ Has(formValues, stateKey)
                   /\ formValues[stateKey] = field.value
                   /\ formValues[stateKey] # ""
      checked == ~isChecked
      on == IF field.value # NULL /\ field.value # "" THEN field.value ELSE "1"
      newValue == IF checked THEN on ELSE ""
  IN  /\ ppLoaded
      /\ ppToggles < MaxToggles
      /\ InGroup(ppGroups, "beneficios", i)
      /\ formValues' = handleInputChange(formValues, ppStored, basePremium,
                                         stateKey, newValue, field.name)
      /\ ppSelected' = IF checked THEN ppSelected \cup {i} ELSE ppSelected \ {i}
      /\ ppUnticked' = IF checked THEN ppUnticked \ {i} ELSE ppUnticked \cup {i}
      /\ ppToggles' = ppToggles + 1
      /\ ppPayload' = NoPayload
      /\ UNCHANGED <<ppRemote, ppStored, ppLoaded, basePremium, ppGroups, ppEdits>>
      /\ UNCHANGED ppEntered
      /\ UNCHANGED <<apiVars, pidVars, lbVars, botVars, pqVars, catVars, opsVars, scVars, qfVars>>

\* the sequence renderField is mapped over that holds field i
RenderedBy(grouping, i) ==
  IF InSeq(grouping.otherFields, i) THEN grouping.otherFields
  ELSE IF \E k \in DOMAIN grouping.groups \ {"beneficios"} : InGroup(grouping, k, i)
    THEN grouping.groups[CHOOSE k \in DOMAIN grouping.groups \ {"beneficios"} :
                           InGroup(grouping, k, i)]
  ELSE <<>>

\* baseKey of renderField(field, 0, fieldIndex)
BaseKey(field) ==
  IF field.name # NULL THEN field.name
  ELSE IF field.id # NULL THEN field.id
  ELSE "field-0-" \o field.tag

FieldKey(field, fieldIndex) == BaseKey(field) \o "-" \o IntToStr(fieldIndex)

\* value of renderField
RenderedValue(values, field) ==
  ValueOr(values, BaseKey(field),
          IF field.value # NULL THEN field.value ELSE "")

\* the user clicks a checkbox drawn by renderField
ToggleCheckbox(i) ==
  LET field == ppStored[i]
      fieldIndex == PositionIn(RenderedBy(ppGroups, i), i) - 1
      checked == ~(RenderedValue(formValues, field) # "")
  IN  /\ ppLoaded
      /\ ppToggles < MaxToggles
      /\ InSeq(RenderedBy(ppGroups, i), i)
      /\ ~RenderSkips(field)
      /\ field.tag = "input"
      /\ field.type \in {"checkbox", "radio"}
      /\ formValues' = handleInputChange(formValues, ppStored, basePremium,
                                         FieldKey(field, fieldIndex),
                                         IF checked THEN "1" ELSE "0", field.name)
      /\ ppSelected' = IF checked THEN ppSelected \cup {i} ELSE ppSelected \ {i}
      /\ ppUnticked' = IF checked THEN ppUnticked \ {i} ELSE ppUnticked \cup {i}
      /\ ppToggles' = ppToggles + 1
      /\ ppPayload' = NoPayload
      /\ UNCHANGED <<ppRemote, ppStored, ppLoaded, basePremium, ppGroups, ppEdits>>
      /\ UNCHANGED ppEntered
      /\ UNCHANGED <<apiVars, pidVars, lbVars, botVars, pqVars, catVars, opsVars, scVars, qfVars>>

\* isPremiumField of renderField: the input is read-only
IsReadOnly(field) ==
  \/ field.name # NULL /\ Includes(ToLowerCase(field.name), "premium")
  \/ field.name # NULL /\ Includes(ToLowerCase(field.name), "prima")
  \/ Includes(ToLowerCase(getFieldLabel(field)), "prima")

\* the user types into a text input drawn by renderField
EditField(i, text) ==
  LET field == ppStored[i]
      fieldIndex == PositionIn(RenderedBy(ppGroups, i), i) - 1
  IN  /\ ppLoaded
      /\ ppEdits < MaxEdits
      /\ InSeq(RenderedBy(ppGroups, i), i)
      /\ ~RenderSkips(field)
      /\ field.tag = "input"
      /\ field.type \notin {"checkbox", "radio"}
      /\ ~IsReadOnly(field)
      /\ formValues' = handleInputChange(formValues, ppStored, basePremium,
                                         FieldKey(field, fieldIndex), text, field.name)
      /\ ppEdits' = ppEdits + 1
      /\ ppPayload' = NoPayload
      /\ ppEntered' = IF field.name = NULL THEN ppEntered
                      ELSE Put(ppEntered, field.name, text)
      /\ UNCHANGED <<ppRemote, ppStored, ppLoaded, basePremium, ppGroups, ppSelected,
                     ppToggles, ppUnticked>>
      /\ UNCHANGED <<apiVars, pidVars, lbVars, botVars, pqVars, catVars, opsVars, scVars, qfVars>>

\* a formData built from the displayed fields only
FormDataOf_Displayed(values, fields) ==
  LET named == OrderedIndices({i \in 1..Len(fields) :
                                 fields[i].name # NULL /\ shouldDisplayField(fields[i])},
                              Len(fields))
      Entry(field) ==
        [name |-> field.name,
         value |-> IF field.type = "checkbox" /\ ~Has(values, field.name) THEN ""
                   ELSE ValueOr(values, field.name,
                                IF field.value # NULL THEN field.value ELSE "")]
  IN  [k \in 1..Len(named) |-> Entry(fields[named[k]])]

\* formData of handleSubmit: one entry per named field, in field order
FormDataOf(values, fields) ==
  LET named == OrderedIndices({i \in 1..Len(fields) : fields[i].name # NULL},
                              Len(fields))
      Entry(field) ==
        [name |-> field.name,
         value |-> IF field.type = "checkbox" /\ ~Has(values, field.name) THEN ""
                   ELSE ValueOr(values, field.name,
                                IF field.value # NULL THEN field.value ELSE "")]
  IN  [k \in 1..Len(named) |-> Entry(fields[named[k]])]

\* the user submits the main form
handleSubmit ==
  /\ ppLoaded
  /\ ppPayload' = [built |-> TRUE, entries |-> FormDataOf(formValues, ppStored)]
  /\ UNCHANGED <<ppRemote, ppStored, ppLoaded, formValues, basePremium, ppGroups,
                 ppSelected, ppToggles, ppEdits, ppUnticked>>
  /\ UNCHANGED ppEntered
  /\ UNCHANGED <<apiVars, pidVars, lbVars, botVars, pqVars, catVars, opsVars, scVars, qfVars>>

StartPp ==
  /\ ppRemote \in RemoteForms
  /\ ppStored = <<>>
  /\ ppLoaded = FALSE
  /\ formValues = <<>>
  /\ basePremium = 0
  /\ ppGroups = NoGroups
  /\ ppSelected = {}
  /\ ppToggles = 0
  /\ ppEdits = 0
  /\ ppUnticked = {}
  /\ ppPayload = NoPayload
  /\ ppEntered = <<>>

IdlePp ==
  /\ ppRemote = <<>>
  /\ ppStored = <<>>
  /\ ppLoaded = FALSE
  /\ formValues = <<>>
  /\ basePremium = 0
  /\ ppGroups = NoGroups
  /\ ppSelected = {}
  /\ ppToggles = 0
  /\ ppEdits = 0
  /\ ppUnticked = {}
  /\ ppPayload = NoPayload
  /\ ppEntered = <<>>

NextPp ==
  \/ StoreFromRoute
  \/ StoreFromBot
  \/ LoadPurchaseForm
  \/ \E i \in 1..Len(ppStored) : ToggleBenefit(i)
  \/ \E i \in 1..Len(ppStored) : ToggleCheckbox(i)
  \/ \E i \in 1..Len(ppStored), text \in EditValues : EditField(i, text)
  \/ handleSubmit


\* the fields rendered on the purchase page
Rendered(i) ==
  \/ InSeq(ppGroups.otherFields, i)
  \/ \E k \in DOMAIN ppGroups.groups : InGroup(ppGroups, k, i)

HasBreakdownSegment(field, P) ==
  NameIncludes(field, "[breakdowns][" \o IntToStr(P) \o "]")

\* C8: every displayed field whose name contains the segment [breakdowns][P]
\* is in passenger group P+1 and in no other group, nor among the other
\* fields.
PassengerGrouping ==
  ppLoaded =>
    \A i \in 1..Len(ppStored), P \in 0..(MaxBreakdown + 1) :
      (Rendered(i) /\ HasBreakdownSegment(ppStored[i], P)) =>
        /\ InGroup(ppGroups, "passenger-" \o IntToStr(P + 1), i)
        /\ \A k \in DOMAIN ppGroups.groups \ {"passenger-" \o IntToStr(P + 1)} :
             ~InGroup(ppGroups, k, i)
        /\ ~InSeq(ppGroups.otherFields, i)

\* the field of breakdown 2 is displayed in passenger group 3
PassengerThreeGrouped ==
  /\ ppLoaded
  /\ \E i \in 1..Len(ppStored) :
       /\ ppStored[i].name = PassengerName(2, "last_name")
       /\ InGroup(ppGroups, "passenger-3", i)

\* a checkbox of the remote form that carries a rider premium
IsRemoteRider(i) ==
  ppRemote[i].type = "checkbox" /\ ppRemote[i].dataPremium # NULL

\* C9: every displayed rider checkbox (a checkbox carrying a rider premium) is
\* in the benefits group, whatever its breakdown index, and in no passenger
\* group.
RidersInBenefitsGroup ==
  ppLoaded =>
    \A i \in 1..Len(ppStored) :
      (Rendered(i) /\ IsRemoteRider(i)) =>
        /\ InGroup(ppGroups, "beneficios", i)
        /\ \A k \in DOMAIN ppGroups.groups \ {"beneficios"} : ~InGroup(ppGroups, k, i)

RECURSIVE SumPremiums(_)
SumPremiums(S) ==
  IF S = {} THEN 0
  ELSE LET i == CHOOSE x \in S : TRUE
       IN  parseFloat(ppRemote[i].dataPremium) + SumPremiums(S \ {i})

\* the tracked total premium, in cents (NaN when nothing is tracked)
TrackedTotal ==
  LET Q(f) == IsPremiumName(f)
      pi == FindIndex(ppStored, Q)
  IN  IF pi # 0 /\ Has(formValues, ppStored[pi].name)
        THEN parseFloat(KeepNumeric(formValues[ppStored[pi].name]))
        ELSE NaN

Riders == {i \in 1..Len(ppRemote) : IsRemoteRider(i)}

\* C10: after any sequence of rider toggles the tracked total premium is the
\* base premium plus the premiums of exactly the riders the user has left
\* selected, and a rider is selected iff its tracked value equals its value
\* attribute.
PremiumFollowsRiders ==
  (ppLoaded /\ ppToggles > 0) =>
    /\ TrackedTotal = basePremium + SumPremiums(ppSelected \cap Riders)
    /\ \A i \in Riders :
         (i \in ppSelected) <=>
           /\ Has(formValues, ppStored[i].name)
           /\ formValues[ppStored[i].name] = ppStored[i].value

\* base 100.00, riders 5.50 and 10.00: both selected, then one deselected
BothThenOne ==
  /\ ppToggles = 3
  /\ basePremium = 10000
  /\ Cardinality(ppSelected \cap Riders) = 1
  /\ TrackedTotal \in {10550, 11000}

\* the tracked value of the premium field (NULL when nothing is tracked)
TrackedPremiumText ==
  LET Q(f) == IsPremiumName(f)
      pi == FindIndex(ppStored, Q)
  IN  IF pi # 0 /\ Has(formValues, ppStored[pi].name)
        THEN formValues[ppStored[pi].name]
        ELSE NULL

\* text is `US$ ${n.toFixed(2)}` for some non-negative n
IsCurrencyText(text) ==
  /\ Len(text) >= 8
  /\ SubSeq(text, 1, 4) = "US$ "
  /\ AllDigits(SubSeq(text, 5, Len(text) - 3))
  /\ CharAt(text, Len(text) - 2) = "."
  /\ AllDigits(SubSeq(text, Len(text) - 1, Len(text)))

\* C11: in every state of the loaded purchase page, at load and after any
\* toggles and edits, the tracked value of the premium field is 'US$ '
\* followed by a number with exactly two decimal places.
PremiumAlwaysFormatted ==
  ppLoaded => (TrackedPremiumText # NULL /\ IsCurrencyText(TrackedPremiumText))

\* the names of the entries of a built payload
PayloadNames(payload) == {payload.entries[k].name : k \in 1..Len(payload.entries)}

\* C30: in a built payload the entry of every named non-checkbox field the
\* user has edited holds the text the user typed last, the empty text
\* included.
LastEnteredSubmitted ==
  ppPayload.built =>
    \A k \in 1..Len(ppPayload.entries) :
      \A i \in 1..Len(ppStored) :
        (/\ ppStored[i].name = ppPayload.entries[k].name
         /\ ppStored[i].type # "checkbox"
         /\ Has(ppEntered, ppStored[i].name))
          => ppPayload.entries[k].value = ppEntered[ppStored[i].name]

\* the same property for the texts that are not empty
TypedTextSubmitted ==
  ppPayload.built =>
    \A k \in 1..Len(ppPayload.entries) :
      \A i \in 1..Len(ppStored) :
        (/\ ppStored[i].name = ppPayload.entries[k].name
         /\ ppStored[i].type # "checkbox"
         /\ Has(ppEntered, ppStored[i].name)
         /\ ppEntered[ppStored[i].name] # "")
          => ppPayload.entries[k].value = ppEntered[ppStored[i].name]

\* rider checkboxes of the stored form
StoredRiders == {i \in 1..Len(ppStored) : IsRiderField(ppStored[i])}

\* C12: when the form is submitted, the key of every rider the user has
\* toggled off is absent from the tracked values and from the built payload
\* (it is not submitted with an empty string).
UntickedRiderNotSubmitted ==
  [][handleSubmit =>
       \A i \in ppUnticked \cap StoredRiders :
         /\ ~Has(formValues, ppStored[i].name)
         /\ ppStored[i].name \notin PayloadNames(ppPayload')]_vars

\* the value, in cents, of the first field that is not a rider checkbox and
\* whose name denotes the premium (0 when there is none or it holds no amount)
FirstPremiumValue(fields) ==
  LET Q(f) == ~IsRiderField(f) /\ IsPremiumName(f)
      pi == FindIndex(fields, Q)
      text == IF pi # 0 /\ fields[pi].value # NULL THEN fields[pi].value ELSE ""
  IN  IF parseFloat(KeepNumeric(text)) > 0 THEN parseFloat(KeepNumeric(text)) ELSE 0

\* C14: once the form is loaded, basePremium is the value of the first
\* non-rider field whose name denotes the premium, read as a decimal after
\* stripping non-numeric characters; toggles and edits leave it alone.
BasePremiumFromFirst ==
  ppLoaded => basePremium = FirstPremiumValue(ppStored)

\* no step after the load changes basePremium
BasePremiumFrozen == [][ppLoaded => basePremium' = basePremium]_vars

\* C15: a field that fails shouldDisplayField is in no rendering group and
\* not among the other rendered fields, and when the form is submitted every
\* named field, displayed or not, has an entry in the built payload.
HiddenButSubmitted ==
  /\ ppLoaded =>
        \A i \in 1..Len(ppStored) : ~shouldDisplayField(ppStored[i]) => ~Rendered(i)
  /\ ppPayload.built =>
        \A i \in 1..Len(ppStored) :
          ppStored[i].name # NULL => ppStored[i].name \in PayloadNames(ppPayload)

\* a submitted form with a labelled computed field, a required agent field
\* and a hidden field: none is rendered, all are in the payload
InternalFieldsSubmitted ==
  /\ ppPayload.built
  /\ \A n \in {"website_quotation[factor_wlc]", "website_quotation[agent][code]",
                "website_quotation[id]"} :
        /\ n \in PayloadNames(ppPayload)
        /\ \E i \in 1..Len(ppStored) :
             /\ ppStored[i].name = n
             /\ ~shouldDisplayField(ppStored[i])
             /\ ~Rendered(i)

\* the checked attribute of the control drawn for checkbox i
ShownChecked(i) ==
  IF InGroup(ppGroups, "beneficios", i)
    THEN RiderIsChecked(formValues, ppStored[i])
    ELSE RenderedValue(formValues, ppStored[i]) # ""

\* C13: a displayed rider checkbox has no tracked value and is shown unchecked
\* until the user checks it, whatever value was scraped; while the user's last
\* event on it is a check, its tracked value is its own value attribute and
\* it is shown checked; after an uncheck it has no tracked value again and is
\* shown unchecked.
RiderLifecycle ==
  ppLoaded =>
    \A i \in StoredRiders :
      Rendered(i) =>
        IF i \in ppSelected
          THEN /\ Has(formValues, ppStored[i].name)
               /\ formValues[ppStored[i].name] = ppStored[i].value
               /\ ShownChecked(i)
          ELSE /\ ~Has(formValues, ppStored[i].name)
               /\ ~ShownChecked(i)


----------------------------------------------------------------------------
(* MercantilSegurosBot.generateQuote: the scripted quote flow, one step per *)
(* awaited operation on the remote page.                                   *)

NoRead == [read |-> FALSE]

\* an <option> of the destination dropdown with the attributes the bot reads
DomOption(value, text, disabled, style) ==
  [value |-> value, text |-> text, disabled |-> disabled, style |-> style]

\* how the remote page marks a destination that the trip type does not offer
HideMarks ==
  { [disabled |-> NULL, style |-> "display: none;"],
    [disabled |-> NULL, style |-> "display:none"],
    [disabled |-> "disabled", style |-> NULL],
    [disabled |-> "", style |-> NULL] }

SiteTripTypes ==
  << Opt("", "Seleccione"), Opt("Viajes Por Día", "Viajes Por Día"),
     Opt("Anual Multiviaje", "Anual Multiviaje") >>

SiteOrigins ==
  << Opt("", "Seleccione"), Opt("160", " Panamá "), Opt("231", "Venezuela") >>

\* the destinations of the README, each with the trip types that offer it
SiteDestinations ==
  << [value |-> "", text |-> "Seleccione",
      offeredBy |-> {"Viajes Por Día", "Anual Multiviaje"}],
     [value |-> "2", text |-> "Europa", offeredBy |-> {"Viajes Por Día"}],
     [value |-> "3", text |-> "Resto del Mundo", offeredBy |-> {"Viajes Por Día"}],
     [value |-> "5", text |-> "Mundial", offeredBy |-> {"Anual Multiviaje"}] >>

Sites == {[hide |-> m] : m \in HideMarks}

\* the options of the destination dropdown once the trip type is selected
DestinationDom(site, trip) ==
  [i \in 1..Len(SiteDestinations) |->
     LET d == SiteDestinations[i]
     IN  IF trip \in d.offeredBy
           THEN DomOption(d.value, d.text, NULL, NULL)
           ELSE DomOption(d.value, d.text, site.hide.disabled, site.hide.style)]

\* the option page.selectOption(selector, choice) picks: by value or by label
SelectIndex(options, choice) ==
  LET P(o) == o.value = choice \/ o.text = choice
  IN  FindIndex(options, P)

\* the loop of getAvailableDestinations over the destination options
AvailableDestinations(dom) ==
  LET keep(o) ==
        /\ ~( \/ (o.disabled # NULL /\ o.disabled # "")
              \/ (o.style # NULL /\ o.style # "" /\ Includes(o.style, "display: none")) )
        /\ o.value # NULL /\ o.value # ""
        /\ o.text # NULL /\ o.text # "" /\ Trim(o.text) # "Seleccione"
      kept == {i \in 1..Len(dom) : keep(dom[i])}
      idx == OrderedIndices(kept, Len(dom))
  IN  [k \in 1..Len(idx) |->
         [value |-> Trim(dom[idx[k]].value), text |-> Trim(dom[idx[k]].text),
          disabled |-> FALSE]]

BotTripTypes == {"Viajes Por Día", "Anual Multiviaje", "Semanal"}
BotOrigins == {"Panamá", "Atlantis"}
BotDestinations == {"Europa", "Mundial", "Marte"}
BotPassengers == {[passengers |-> 1, ages |-> <<30>>],
                  [passengers |-> 2, ages |-> <<30>>],
                  [passengers |-> 1, ages |-> <<30, 41>>]}

BotConfigs ==
  {[tripType |-> t, origin |-> o, destination |-> d, passengers |-> p.passengers,
    ages |-> p.ages, agent |-> DefaultAgent] :
     t \in BotTripTypes, o \in BotOrigins, d \in BotDestinations, p \in BotPassengers}

NoConfig == [none |-> TRUE]

Thrown(message) == [called |-> TRUE, thrown |-> TRUE, success |-> FALSE, error |-> message]

Returned(success, error) ==
  [called |-> TRUE, thrown |-> FALSE, success |-> success, error |-> error]

\* an awaited operation throws: control moves to the catch block
Throw(message) ==
  /\ botPc' = "catch"
  /\ botError' = message

\* initialize()
Initialize ==
  /\ botBrowser = "none"
  /\ botPc = "idle"
  /\ botBrowser' = "open"
  /\ UNCHANGED <<botPc, botConfig, botSite, botStrict, botTrip, botAvailable, botOrigin,
                 botDestination, botAgesFilled, botSubmitted, botError, botResult>>
  /\ UNCHANGED <<apiVars, pidVars, lbVars, ppVars, pqVars, catVars, opsVars, scVars, qfVars>>

\* generateQuote(config) is called: it throws when the page is null
StartGenerateQuote ==
  /\ botPc = "idle"
  /\ botBrowser \in {"none", "open"}
  /\ botResult = NoCall
  /\ IF botBrowser = "none"
       THEN /\ botResult' = Thrown("Bot not initialized. Call initialize() first.")
            /\ botPc' = "done"
       ELSE /\ botPc' = "goto"
            /\ UNCHANGED botResult
  /\ UNCHANGED <<botBrowser, botConfig, botSite, botStrict, botTrip, botAvailable,
                 botOrigin, botDestination, botAgesFilled, botSubmitted, botError>>
  /\ UNCHANGED <<apiVars, pidVars, lbVars, ppVars, pqVars, catVars, opsVars, scVars, qfVars>>

\* page.goto and waitForSelector on the trip type dropdown
Navigate(loaded) ==
  /\ botPc = "goto"
  /\ IF loaded THEN botPc' = "tripType" /\ UNCHANGED botError
     ELSE Throw("Timeout 60000ms exceeded")
  /\ UNCHANGED <<botBrowser, botConfig, botSite, botStrict, botTrip, botAvailable,
                 botOrigin, botDestination, botAgesFilled, botSubmitted, botResult>>
  /\ UNCHANGED <<apiVars, pidVars, lbVars, ppVars, pqVars, catVars, opsVars, scVars, qfVars>>

\* page.selectOption(SELECTORS.tripType, config.tripType)
SelectTripType ==
  LET i == SelectIndex(SiteTripTypes, botConfig.tripType)
  IN  /\ botPc = "tripType"
      /\ IF i # 0
           THEN /\ botTrip' = SiteTripTypes[i].value
                /\ botPc' = "destinations"
                /\ UNCHANGED botError
           ELSE /\ Throw("Timeout: no option matches the trip type")
                /\ UNCHANGED botTrip
      /\ UNCHANGED <<botBrowser, botConfig, botSite, botStrict, botAvailable, botOrigin,
                     botDestination, botAgesFilled, botSubmitted, botResult>>
      /\ UNCHANGED <<apiVars, pidVars, lbVars, ppVars, pqVars, catVars, opsVars, scVars, qfVars>>

\* getAvailableDestinations(config.tripType)
ReadDestinations ==
  LET i == SelectIndex(SiteTripTypes, botConfig.tripType)
  IN  /\ botPc = "destinations"
      /\ IF i # 0
           THEN /\ botTrip' = SiteTripTypes[i].value
                /\ botAvailable' =
                     [read |-> TRUE,
                      options |-> AvailableDestinations(
                                    DestinationDom(botSite, SiteTripTypes[i].value))]
                /\ botPc' = "origin"
                /\ UNCHANGED botError
           ELSE /\ Throw("Timeout: no option matches the trip type")
                /\ UNCHANGED <<botTrip, botAvailable>>
      /\ UNCHANGED <<botBrowser, botConfig, botSite, botStrict, botOrigin, botDestination,
                     botAgesFilled, botSubmitted, botResult>>
      /\ UNCHANGED <<apiVars, pidVars, lbVars, ppVars, pqVars, catVars, opsVars, scVars, qfVars>>

\* the origin loop and page.selectOption(SELECTORS.origin, originValue)
SelectOrigin ==
  LET P(o) == o.text # "" /\ Includes(Trim(o.text), botConfig.origin)
      i == FindIndex(SiteOrigins, P)
      originValue == IF i # 0 THEN SiteOrigins[i].value ELSE NULL
  IN  /\ botPc = "origin"
      /\ IF originValue # NULL /\ originValue # ""
           THEN /\ botOrigin' = originValue
                /\ botPc' = "destination"
                /\ UNCHANGED botError
           ELSE /\ Throw("Origin \"" \o botConfig.origin \o "\" not found in dropdown")
                /\ UNCHANGED botOrigin
      /\ UNCHANGED <<botBrowser, botConfig, botSite, botStrict, botTrip, botAvailable,
                     botDestination, botAgesFilled, botSubmitted, botResult>>
      /\ UNCHANGED <<apiVars, pidVars, lbVars, ppVars, pqVars, catVars, opsVars, scVars, qfVars>>

\* availableDestinations.find(...) and page.selectOption(SELECTORS.destination, value)
SelectDestination ==
  LET wanted == ToLowerCase(botConfig.destination)
      P(d) == \/ Includes(ToLowerCase(d.text), wanted)
              \/ Includes(wanted, ToLowerCase(d.text))
      k == FindIndex(botAvailable.options, P)
      dom == DestinationDom(botSite, botTrip)
      j == IF k # 0 THEN SelectIndex(dom, botAvailable.options[k].value) ELSE 0
  IN  /\ botPc = "destination"
      /\ IF k = 0
           THEN /\ Throw("Destination \"" \o botConfig.destination \o
                         "\" not available for trip type \"" \o botConfig.tripType \o "\"")
                /\ UNCHANGED botDestination
         ELSE IF j = 0 \/ (dom[j].disabled # NULL /\ botStrict)
           THEN /\ Throw("Timeout: option is not enabled")
                /\ UNCHANGED botDestination
         ELSE /\ botDestination' = dom[j].value
              /\ botPc' = "details"
              /\ UNCHANGED botError
      /\ UNCHANGED <<botBrowser, botConfig, botSite, botStrict, botTrip, botAvailable,
                     botOrigin, botAgesFilled, botSubmitted, botResult>>
      /\ UNCHANGED <<apiVars, pidVars, lbVars, ppVars, pqVars, catVars, opsVars, scVars, qfVars>>

MaxPassengers == 8

\* agent, date range and passenger count
FillDetails ==
  /\ botPc = "details"
  /\ IF botConfig.passengers \in 1..MaxPassengers
       THEN botPc' = "ages" /\ UNCHANGED botError
       ELSE Throw("Timeout: no option matches the passenger count")
  /\ UNCHANGED <<botBrowser, botConfig, botSite, botStrict, botTrip, botAvailable,
                 botOrigin, botDestination, botAgesFilled, botSubmitted, botResult>>
  /\ UNCHANGED <<apiVars, pidVars, lbVars, ppVars, pqVars, catVars, opsVars, scVars, qfVars>>

\* the ages loop: the page shows one age input per passenger
FillAges ==
  /\ botPc = "ages"
  /\ IF Len(botConfig.ages) <= botConfig.passengers
       THEN /\ botAgesFilled' = Len(botConfig.ages)
            /\ botPc' = "submit"
            /\ UNCHANGED botError
       ELSE /\ botAgesFilled' = botConfig.passengers
            /\ Throw("Timeout 5000ms exceeded")
  /\ UNCHANGED <<botBrowser, botConfig, botSite, botStrict, botTrip, botAvailable,
                 botOrigin, botDestination, botSubmitted, botResult>>
  /\ UNCHANGED <<apiVars, pidVars, lbVars, ppVars, pqVars, catVars, opsVars, scVars, qfVars>>

\* the screenshot before submission and the click on COTIZAR SEGURO
Submit ==
  /\ botPc = "submit"
  /\ botSubmitted' = TRUE
  /\ botPc' = "extract"
  /\ UNCHANGED <<botBrowser, botConfig, botSite, botStrict, botTrip, botAvailable,
                 botOrigin, botDestination, botAgesFilled, botError, botResult>>
  /\ UNCHANGED <<apiVars, pidVars, lbVars, ppVars, pqVars, catVars, opsVars, scVars, qfVars>>

\* the waits, the screenshot after submission and the extraction of the plans
Extract ==
  /\ botPc = "extract"
  /\ botResult' = Returned(TRUE, NULL)
  /\ botPc' = "done"
  /\ UNCHANGED <<botBrowser, botConfig, botSite, botStrict, botTrip, botAvailable,
                 botOrigin, botDestination, botAgesFilled, botSubmitted, botError>>
  /\ UNCHANGED <<apiVars, pidVars, lbVars, ppVars, pqVars, catVars, opsVars, scVars, qfVars>>

\* the catch block: error screenshot and the failure result
\* page.screenshot is awaited inside the catch block: when it rejects, the
\* rejection leaves generateQuote
Catch(captured) ==
  /\ botPc = "catch"
  /\ botResult' = IF captured THEN Returned(FALSE, botError)
                  ELSE Thrown("page.screenshot: Target closed")
  /\ botPc' = "done"
  /\ UNCHANGED <<botBrowser, botConfig, botSite, botStrict, botTrip, botAvailable,
                 botOrigin, botDestination, botAgesFilled, botSubmitted, botError>>
  /\ UNCHANGED <<apiVars, pidVars, lbVars, ppVars, pqVars, catVars, opsVars, scVars, qfVars>>

\* close()
Close ==
  /\ botPc = "done"
  /\ botBrowser = "open"
  /\ botBrowser' = "closed"
  /\ UNCHANGED <<botPc, botConfig, botSite, botStrict, botTrip, botAvailable, botOrigin,
                 botDestination, botAgesFilled, botSubmitted, botError, botResult>>
  /\ UNCHANGED <<apiVars, pidVars, lbVars, ppVars, pqVars, catVars, opsVars, scVars, qfVars>>

StartBot ==
  /\ botBrowser = "none"
  /\ botPc = "idle"
  /\ botConfig \in BotConfigs
  /\ botSite \in Sites
  /\ botStrict \in BOOLEAN
  /\ botTrip = NULL
  /\ botAvailable = NoRead
  /\ botOrigin = NULL
  /\ botDestination = NULL
  /\ botAgesFilled = 0
  /\ botSubmitted = FALSE
  /\ botError = NULL
  /\ botResult = NoCall

IdleBot ==
  /\ botBrowser = "none"
  /\ botPc = "idle"
  /\ botConfig = NoConfig
  /\ botSite = NoConfig
  /\ botStrict = FALSE
  /\ botTrip = NULL
  /\ botAvailable = NoRead
  /\ botOrigin = NULL
  /\ botDestination = NULL
  /\ botAgesFilled = 0
  /\ botSubmitted = FALSE
  /\ botError = NULL
  /\ botResult = NoCall

NextBot ==
  \/ Initialize
  \/ StartGenerateQuote
  \/ \E loaded \in BOOLEAN : Navigate(loaded)
  \/ SelectTripType
  \/ ReadDestinations
  \/ SelectOrigin
  \/ SelectDestination
  \/ FillDetails
  \/ FillAges
  \/ Submit
  \/ Extract
  \/ \E captured \in BOOLEAN : Catch(captured)
  \/ Close

\* the option is disabled or hidden in a browser
IsDisabled(o) == o.disabled # NULL

IsHidden(o) == o.style # NULL /\ Includes(RemoveAll(o.style, " "), "display:none")

OriginInDropdown ==
  \E i \in 1..Len(SiteOrigins) :
    Trim(SiteOrigins[i].text) = botConfig.origin /\ SiteOrigins[i].value # ""

TripTypeInDropdown == SelectIndex(SiteTripTypes, botConfig.tripType) # 0

\* the destination is an enabled and visible option of the chosen trip type
DestinationOffered ==
  /\ TripTypeInDropdown
  /\ LET dom == DestinationDom(botSite,
                  SiteTripTypes[SelectIndex(SiteTripTypes, botConfig.tripType)].value)
     IN  \E j \in 1..Len(dom) :
           /\ Trim(dom[j].text) = botConfig.destination
           /\ dom[j].value # ""
           /\ ~IsDisabled(dom[j])
           /\ ~IsHidden(dom[j])

\* C3: the submit button is clicked only after the trip type was selected,
\* the destinations were read and origin and destination were selected from
\* the dropdowns; when the origin is not in the dropdown or the destination is
\* not an enabled and visible destination of the trip type, the form is never
\* submitted and the call returns success:false with an error.
SubmitOnlyWhenOffered ==
  /\ botSubmitted =>
       /\ botTrip # NULL
       /\ botAvailable.read
       /\ \E i \in 1..Len(SiteOrigins) : SiteOrigins[i].value = botOrigin
       /\ \E j \in 1..Len(SiteDestinations) : SiteDestinations[j].value = botDestination
  /\ (botConfig # NoConfig /\ ~(OriginInDropdown /\ DestinationOffered)) =>
       /\ ~botSubmitted
       /\ (botPc = "done" /\ botBrowser # "none") =>
            /\ ~botResult.thrown
            /\ ~botResult.success
            /\ botResult.error # NULL


----------------------------------------------------------------------------
(* Regular expressions of the plan parser: a pattern is a sequence of      *)
(* tokens, matched with JavaScript's backtracking order.                   *)

NoLimit == 1000000

Tok(k, str, chars, min, max, g) ==
  [k |-> k, s |-> str, chars |-> chars, min |-> min, max |-> max, g |-> g]

Lit(str) == Tok("lit", str, {}, 0, 0, 0)              \* the literal text
LitCI(str) == Tok("litci", str, {}, 0, 0, 0)          \* the literal, flag i
OptLit(str) == Tok("opt", str, {}, 0, 0, 0)           \* x?
NotIn(chars, min) == Tok("not", "", chars, min, NoLimit, 0)  \* [^...]* or [^...]+
In(chars, min, max) == Tok("in", "", chars, min, max, 0)     \* [...]{min,max}
LazyAny(max) == Tok("lazy", "", {}, 0, max, 0)        \* [\s\S]{0,max}?
GroupOpen(g) == Tok("open", "", {}, 0, 0, g)               \* (
GroupClose(g) == Tok("close", "", {}, 0, 0, g)             \* )

DigitSet == {CharAt(Digits, i) : i \in 1..Len(Digits)}
SpaceSet == {" ", "\n", "\t"}

NoMatch == [ok |-> FALSE]
NoCaps == <<<<0, 0>>, <<0, 0>>>>

Accepts(tok, c) == IF tok.k = "not" THEN c \notin tok.chars ELSE c \in tok.chars

\* the number of characters from pos on that the class token accepts
RunLength(s, pos, tok) ==
  LET stop == CHOOSE j \in pos..(Len(s) + 1) :
                /\ j = Len(s) + 1 \/ ~Accepts(tok, CharAt(s, j))
                /\ \A i \in pos..(j - 1) : Accepts(tok, CharAt(s, i))
  IN  stop - pos

LitAt(s, tok, pos) ==
  IF tok.k = "litci"
    THEN /\ pos + Len(tok.s) - 1 <= Len(s)
         /\ ToLowerCase(SubSeq(s, pos, pos + Len(tok.s) - 1)) = ToLowerCase(tok.s)
    ELSE OccursAt(s, tok.s, pos)

Smaller(a, b) == IF a < b THEN a ELSE b
Larger(a, b) == IF a > b THEN a ELSE b

\* the first successful way, in backtracking order, to match the tokens from
\* k on at position pos
RECURSIVE Match(_, _, _, _, _)
Match(re, k, s, pos, caps) ==
  IF k > Len(re) THEN [ok |-> TRUE, end |-> pos, caps |-> caps]
  ELSE LET tok == re[k]
           Rest(at) == Match(re, k + 1, s, at, caps)
       IN  CASE tok.k \in {"lit", "litci"} ->
                  IF LitAt(s, tok, pos) THEN Rest(pos + Len(tok.s)) ELSE NoMatch
             [] tok.k = "opt" ->
                  IF OccursAt(s, tok.s, pos) /\ Rest(pos + Len(tok.s)).ok
                    THEN Rest(pos + Len(tok.s))
                    ELSE Rest(pos)
             [] tok.k \in {"not", "in"} ->
                  \* greedy: the longest run after which the rest matches
                  LET run == Smaller(RunLength(s, pos, tok), tok.max)
                      fits == {n \in tok.min..run : Rest(pos + n).ok}
                  IN  IF fits = {} THEN NoMatch
                      ELSE Rest(pos + CHOOSE n \in fits : \A m \in fits : m <= n)
             [] tok.k = "lazy" ->
                  \* lazy: the shortest run after which the rest matches
                  LET max == Smaller(tok.max, Len(s) - pos + 1)
                  IN  IF \E n \in 0..max : Rest(pos + n).ok
                        THEN Rest(pos + CHOOSE n \in 0..max :
                                          /\ Rest(pos + n).ok
                                          /\ \A m \in 0..(n - 1) : ~Rest(pos + m).ok)
                        ELSE NoMatch
             [] tok.k = "open" ->
                  Match(re, k + 1, s, pos, [caps EXCEPT ![tok.g] = <<pos, 0>>])
             [] tok.k = "close" ->
                  Match(re, k + 1, s, pos, [caps EXCEPT ![tok.g] = <<caps[tok.g][1], pos>>])

\* the match object of a match r found at position p
Found(p, r) == [ok |-> TRUE, start |-> p, end |-> r.end, caps |-> r.caps]

\* the match at the leftmost of the positions where the pattern matches
Leftmost(re, s, starts) ==
  IF starts = {} THEN NoMatch
  ELSE LET p == CHOOSE x \in starts : \A y \in starts : x <= y
       IN  Found(p, Match(re, 1, s, p, NoCaps))

\* RegExp.prototype.exec with lastIndex = from - 1: the leftmost match
Exec(re, s, from) ==
  Leftmost(re, s, {p \in from..(Len(s) + 1) : Match(re, 1, s, p, NoCaps).ok})

\* match[0]
Whole(s, r) == SubSeq(s, r.start, r.end - 1)

\* match[g], NULL when the group did not take part (undefined)
Group(s, r, g) ==
  IF r.caps[g][1] = 0 THEN NULL ELSE SubSeq(s, r.caps[g][1], r.caps[g][2] - 1)

\* the match r and the results of exec after it, lastIndex advancing
RECURSIVE ExecNext(_, _, _)
ExecNext(re, s, r) ==
  IF ~r.ok THEN <<>> ELSE <<r>> \o ExecNext(re, s, Exec(re, s, r.end))

\* the successive results of exec on a pattern with flag g
ExecAll(re, s, from) == ExecNext(re, s, Exec(re, s, from))

\* s from position from on, the matches from the n-th on replaced
RECURSIVE Replaced(_, _, _, _, _, _)
Replaced(s, matches, n, from, pre, g) ==
  IF n > Len(matches) THEN SubSeq(s, from, Len(s))
  ELSE SubSeq(s, from, matches[n].start - 1) \o pre \o
       (IF g = 0 THEN "" ELSE Group(s, matches[n], g)) \o
       Replaced(s, matches, n + 1, matches[n].end, pre, g)

\* s.replace(re, pre + $g) for a pattern with flag g (g = 0: no group)
ReplaceAll(re, s, from, pre, g) == Replaced(s, ExecAll(re, s, from), 1, from, pre, g)

\* String.prototype.toUpperCase
RECURSIVE ToUpperCase(_)
ToUpperCase(s) ==
  IF \A i \in 1..Len(s) : CharAt(s, i) \notin LowerCharSet THEN s
  ELSE UpperChar(CharAt(s, 1)) \o ToUpperCase(SubSeq(s, 2, Len(s)))

----------------------------------------------------------------------------
(* MercantilSegurosAPIClient.parseQuotePlans                               *)

Window == 5000
MaxAltPlans == 10

TagEnd == <<NotIn({">"}, 0), Lit(">")>>

ClassWith(words) ==
  <<Lit("class=\"")>> \o
  [i \in 1..(2 * Len(words)) |->
     IF i % 2 = 1 THEN NotIn({"\""}, 0) ELSE Lit(words[i \div 2])] \o
  <<NotIn({"\""}, 0), Lit("\"")>>

Captured(close) == <<GroupOpen(1), LazyAny(NoLimit), GroupClose(1), Lit(close)>>

\* /<form[^>]*id="(D-\d+)"[^>]*name="select-plan"[^>]*>/g
formIdPattern ==
  <<Lit("<form"), NotIn({">"}, 0), Lit("id=\""), GroupOpen(1), Lit("D-"),
    In(DigitSet, 1, NoLimit), GroupClose(1), Lit("\""), NotIn({">"}, 0),
    Lit("name=\"select-plan\"")>> \o TagEnd

\* /<h3[^>]*class="[^"]*font-weight-bold[^"]*"[^>]*>([\s\S]*?)<\/h3>/
boldNamePattern ==
  <<Lit("<h3"), NotIn({">"}, 0)>> \o ClassWith(<<"font-weight-bold">>) \o TagEnd \o
  Captured("</h3>")

\* /<h3[^>]*>([\s\S]*?)<\/h3>/
namePattern == <<Lit("<h3")>> \o TagEnd \o Captured("</h3>")

PriceInP(words) ==
  <<Lit("<p"), NotIn({">"}, 0)>> \o ClassWith(words) \o TagEnd \o Captured("</p>")

\* /USD\s+[\d,]+\.\d{2}/
usdPattern ==
  <<Lit("USD"), In(SpaceSet, 1, NoLimit), In(DigitSet \cup {","}, 1, NoLimit),
    Lit("."), In(DigitSet, 2, 2)>>

pricePatterns ==
  << PriceInP(<<"text-color-light", "opacity-7", "mb-4">>),
     PriceInP(<<"opacity-7", "mb-4">>),
     PriceInP(<<"opacity-7">>),
     usdPattern >>

\* /<br\s*\/?>/gi
brPattern == <<LitCI("<br"), In(SpaceSet, 0, NoLimit), OptLit("/"), Lit(">")>>

\* /<small[^>]*>([\s\S]*?)<\/small>/gi
smallPattern ==
  <<LitCI("<small")>> \o TagEnd \o <<GroupOpen(1), LazyAny(NoLimit), GroupClose(1), LitCI("</small>")>>

\* /<[^>]+>/g
tagPattern == <<Lit("<"), NotIn({">"}, 1), Lit(">")>>

\* /\s+/g
spacesPattern == <<In(SpaceSet, 1, NoLimit)>>

\* /<div[^>]*class="[^"]*item-block[^"]*"[^>]*>([\s\S]{0,5000}?)<\/div>\s*<\/label>\s*<\/div>/g
\* /<label[^>]*for="(D-\d+)"[^>]*>([\s\S]{0,5000}?)<\/label>/g
altPatterns ==
  << <<Lit("<div"), NotIn({">"}, 0)>> \o ClassWith(<<"item-block">>) \o TagEnd \o
     <<GroupOpen(1), LazyAny(Window), GroupClose(1), Lit("</div>"), In(SpaceSet, 0, NoLimit),
       Lit("</label>"), In(SpaceSet, 0, NoLimit), Lit("</div>")>>,
     <<Lit("<label"), NotIn({">"}, 0), Lit("for=\""), GroupOpen(1), Lit("D-"),
       In(DigitSet, 1, NoLimit), GroupClose(1), Lit("\"")>> \o TagEnd \o
     <<GroupOpen(2), LazyAny(Window), GroupClose(2), Lit("</label>")>> >>

\* the tags of a plan name: <br> and <small> become line breaks, others go
NameText(raw) ==
  ReplaceAll(tagPattern,
    ReplaceAll(smallPattern, ReplaceAll(brPattern, raw, 1, "\n", 0), 1, "\n", 1),
    1, "", 0)

\* "Clean up the name" of strategy 1
CleanName(raw) == Trim(ReplaceAll(spacesPattern, NameText(raw), 1, " ", 0))

\* "Ensure price starts with USD"
EnsureUsd(price) ==
  IF price # "" /\ ~Includes(ToUpperCase(price), "USD") THEN "USD " \o price
  ELSE price

\* "Clean up the price" of strategy 1
CleanPrice(html, priceMatch) ==
  LET first == Group(html, priceMatch, 1)
  IN  EnsureUsd(Trim(ReplaceAll(tagPattern,
                  IF first # NULL /\ first # "" THEN first ELSE Whole(html, priceMatch),
                  1, "", 0)))

Skip == [kind |-> "skip"]
Raise == [kind |-> "throw"]
Plan(name, price, id) ==
  [kind |-> "plan", plan |-> [name |-> name, price |-> price, planId |-> id]]

\* the price pattern loop: the first of the matches that is not null
RECURSIVE FirstPrice(_, _)
FirstPrice(matches, n) ==
  IF n > Len(matches) THEN NoMatch
  ELSE IF matches[n].ok THEN matches[n] ELSE FirstPrice(matches, n + 1)

\* "if (name && price) plans.push(...)"
PushPlan(name, price, id) ==
  IF name # "" /\ price # "" THEN Plan(name, price, id) ELSE Skip

\* the try block of strategy 1 from the name match on
CardFields(planHtml, formId, build, boldMatch, nameMatch2, priceMatch) ==
  IF ~boldMatch.ok /\ ~nameMatch2.ok THEN Skip
  ELSE IF ~boldMatch.ok /\ build = "constant" THEN Raise
  ELSE IF ~priceMatch.ok THEN Skip
  ELSE PushPlan(CleanName(Group(planHtml, IF boldMatch.ok THEN boldMatch ELSE nameMatch2, 1)),
                CleanPrice(planHtml, priceMatch), formId)

\* the matches of the plan name and of the price in the plan card
CardMatches(planHtml, formId, build) ==
  CardFields(planHtml, formId, build,
             Exec(boldNamePattern, planHtml, 1),
             Exec(namePattern, planHtml, 1),
             FirstPrice([n \in 1..Len(pricePatterns) |-> Exec(pricePatterns[n], planHtml, 1)], 1))

\* the plan card around the form: from the last <div before it to </label>
CardBlock(html, formId, build, formStart) ==
  LET from == Larger(0, formStart - Window)
      beforeForm == Substring(html, from, formStart)
      itemBlockStart == LastIndexOf(beforeForm, "<div") - 1
      afterForm == Substring(html, formStart, Smaller(Len(html), formStart + Window))
      itemBlockEnd == IndexOf(afterForm, "</label>") - 1
  IN  IF formStart = -1 \/ itemBlockStart = -1 \/ itemBlockEnd = -1 THEN Skip
      ELSE CardMatches(Substring(html, from + itemBlockStart, formStart + itemBlockEnd + 8),
                       formId, build)

\* the body of the try block of strategy 1 for one form id
CardPlan(html, formId, build) ==
  CardBlock(html, formId, build, IndexOf(html, "id=\"" \o formId \o "\"") - 1)

\* without the catch of the try block around each plan
CaughtPerPlan_Uncaught(outcome) == outcome

\* the catch of the try block around each plan: the plan is skipped
CaughtPerPlan(outcome) == IF outcome.kind = "throw" THEN Skip ELSE outcome

\* the loop of strategy 1 over the outcomes of the form ids
RECURSIVE CardLoop(_, _, _)
CardLoop(outcomes, n, plans) ==
  IF n > Len(outcomes) THEN [thrown |-> FALSE, plans |-> plans]
  ELSE IF outcomes[n].kind = "throw" THEN [thrown |-> TRUE, plans |-> plans]
  ELSE CardLoop(outcomes, n + 1,
                IF outcomes[n].kind = "plan" THEN Append(plans, outcomes[n].plan)
                ELSE plans)

\* strategy 1: one try block per form id
CardPlans(html, formIds, build) ==
  CardLoop([n \in 1..Len(formIds) |-> CaughtPerPlan(CardPlan(html, formIds[n], build))],
           1, <<>>)

\* the try block of strategy 2 from the name match on
AltFields(planHtml, matchId, nameMatch, priceMatch, count) ==
  IF ~nameMatch.ok \/ ~priceMatch.ok THEN Skip
  ELSE PushPlan(Trim(NameText(Group(planHtml, nameMatch, 1))),
                Whole(planHtml, priceMatch),
                IF matchId # "" THEN matchId ELSE "plan-" \o IntToStr(count + 1))

\* the matches of the plan name and of the price in planHtml
AltMatches(planHtml, matchId, count) ==
  AltFields(planHtml, matchId,
            Exec(namePattern, planHtml, 1), Exec(usdPattern, planHtml, 1), count)

\* the body of the try block of strategy 2 for one match
AltPlan(html, match, count) ==
  LET g1 == Group(html, match, 1)
      g2 == Group(html, match, 2)
  IN  AltMatches(IF g2 # NULL /\ g2 # "" THEN g2
                 ELSE IF g1 # NULL /\ g1 # "" THEN g1
                 ELSE Whole(html, match),
                 IF g1 # NULL THEN g1 ELSE "",
                 count)

\* plans after the outcome of one match of strategy 2
Pushed(plans, outcome) ==
  IF outcome.kind = "plan" THEN Append(plans, outcome.plan) ELSE plans

\* the while loop of strategy 2 over the matches of one pattern
RECURSIVE AltLoop(_, _, _, _)
AltLoop(html, matches, n, plans) ==
  IF n > Len(matches) \/ Len(plans) >= MaxAltPlans THEN plans
  ELSE AltLoop(html, matches, n + 1,
               Pushed(plans, AltPlan(html, matches[n], Len(plans))))

\* strategy 2: the loop over the two alternative patterns
AltPlans(html) ==
  AltLoop(html, ExecAll(altPatterns[2], html, 1), 1,
          AltLoop(html, ExecAll(altPatterns[1], html, 1), 1, <<>>))

\* the groups of the while loop over formIdPattern.exec(html)
Groups(html, matches, g) == [n \in 1..Len(matches) |-> Group(html, matches[n], g)]

FormIds(html) == Groups(html, ExecAll(formIdPattern, html, 1), 1)

\* strategy 2 runs when strategy 1 found no plan
Strategies(html, first) ==
  IF first.thrown THEN [called |-> TRUE, thrown |-> TRUE, plans |-> <<>>]
  ELSE [called |-> TRUE, thrown |-> FALSE,
        plans |-> IF Len(first.plans) = 0 THEN AltPlans(html) ELSE first.plans]

parseQuotePlans(html, build) == Strategies(html, CardPlans(html, FormIds(html), build))

MaxCards == 2

Fragments ==
  { "",
    "<p>Sin resultados</p>",
    "<form id=\"D-",
    "<div class=\"item-block\"><h3 class=\"h5 font-weight-bold\">Plan 30<br/><small>Hasta 30K</small></h3><p class=\"text-color-light opacity-7 mb-4\">USD 25.00</p><form id=\"D-30\" name=\"select-plan\"></form></label>",
    "<div><h3>Plan  50</h3><p class=\"opacity-7\"> 40.10 </p><form method=\"post\" id=\"D-50\" name=\"select-plan\"></label>",
    "<div><h3 class=\"font-weight-bold\">Plan 75</h3><form id=\"D-75\" name=\"select-plan\"></label>",
    "<div><h3>Plan 100</h3>USD 99.99<form id=\"D-100\" name=\"select-plan\">",
    "<h3 class=\"font-weight-bold\"> <br> </h3>USD 5.00<form id=\"D-5\" name=\"select-plan\"></label>",
    "<label for=\"D-50\"><h3>Plan 50<BR><small>50K</small></h3> USD 1,240.10</label>",
    "<div class=\"item-block\"><h3>Plan X</h3>USD 10.00</div> </label></div>" }

RECURSIVE Pages(_)
Pages(n) ==
  IF n = 0 THEN {""}
  ELSE Pages(n - 1) \cup {page \o f : page \in Pages(n - 1), f \in Fragments}

\* what the build makes of "var nameMatch" redeclaring the const of the block:
\* a plain variable, or a constant whose assignment throws
Builds == {"variable", "constant"}

\* parseQuotePlans(html) is called
ParseFirst ==
  /\ pqFirst = NoCall
  /\ pqFirst' = parseQuotePlans(pqHtml, pqBuild)
  /\ UNCHANGED <<pqHtml, pqBuild, pqSecond>>
  /\ UNCHANGED <<apiVars, pidVars, lbVars, ppVars, botVars, catVars, opsVars, scVars, qfVars>>

\* parseQuotePlans(html) is called again with the same html
ParseSecond ==
  /\ pqFirst # NoCall
  /\ pqSecond = NoCall
  /\ pqSecond' = parseQuotePlans(pqHtml, pqBuild)
  /\ UNCHANGED <<pqHtml, pqBuild, pqFirst>>
  /\ UNCHANGED <<apiVars, pidVars, lbVars, ppVars, botVars, catVars, opsVars, scVars, qfVars>>

StartPq ==
  /\ pqHtml \in Pages(MaxCards)
  /\ pqBuild \in Builds
  /\ pqFirst = NoCall
  /\ pqSecond = NoCall

IdlePq ==
  /\ pqHtml = ""
  /\ pqBuild = "variable"
  /\ pqFirst = NoCall
  /\ pqSecond = NoCall

NextPq == ParseFirst \/ ParseSecond

Headings(html) ==
  LET found == Groups(html, ExecAll(namePattern, html, 1), 1)
  IN  {found[n] : n \in 1..Len(found)}

\* the heading contains a <br> or a <small> element
HasBreakTag(raw) == Exec(brPattern, raw, 1).ok \/ Exec(smallPattern, raw, 1).ok

\* C27: the name of a returned plan whose heading contains <br> or <small>
\* contains a line break, with the product name in front of it.
PlanNameKeepsLines ==
  (pqFirst # NoCall /\ ~pqFirst.thrown) =>
    \A n \in 1..Len(pqFirst.plans) :
      \A raw \in Headings(pqHtml) :
        (HasBreakTag(raw) /\ CleanName(raw) = CleanName(pqFirst.plans[n].name)) =>
          /\ Includes(pqFirst.plans[n].name, "\n")
          /\ IndexOf(pqFirst.plans[n].name, "\n") > 1


----------------------------------------------------------------------------
(* Specifications: one per component, the other components idle.           *)

\* a QuoteConfig whose ages do not match its passenger count
Malformed(config) == config # NoConfig /\ Len(config.ages) # config.passengers

\* C18: a completed call of generateQuote has returned the {success, error}
\* envelope, with an error when it failed; no exception leaves the call.
EnvelopeAlways ==
  botResult # NoCall =>
    /\ ~botResult.thrown
    /\ botResult.success \in BOOLEAN
    /\ ~botResult.success => botResult.error # NULL

\* C19: for a QuoteConfig whose ages do not match its passenger count,
\* nothing is selected or filled on the remote page and the form is not
\* submitted.
MalformedRejected ==
  Malformed(botConfig) =>
    /\ botTrip = NULL
    /\ botOrigin = NULL
    /\ botDestination = NULL
    /\ botAgesFilled = 0
    /\ ~botSubmitted

----------------------------------------------------------------------------
(* The data directory: scrapeCatalog() of src/index.ts saves catalogs, GET *)
(* /api/catalog serves one.                                                *)

MaxBuilds == 3

\* characters of the file names of data/, in UTF-16 code unit order
CodeUnitOrder == "-.0123456789acgjlnost"

\* a < b as Array.prototype.sort() orders strings
SortsBefore(a, b) ==
  LET n == IF Len(a) < Len(b) THEN Len(a) ELSE Len(b)
      diff == {i \in 1..n : CharAt(a, i) # CharAt(b, i)}
      d == CHOOSE i \in diff : \A j \in diff : i <= j
  IN  IF diff = {} THEN Len(a) < Len(b)
      ELSE IndexOf(CodeUnitOrder, CharAt(a, d)) < IndexOf(CodeUnitOrder, CharAt(b, d))

\* Date.now() is a 13-digit number; the clock counts from 1762185599000
CatEpoch == "1762185599"

StartClock == 92

\* a run of scrapeCatalog() takes this long
ClockStep == 4

\* `catalog-${Date.now()}.json`; the clock stays below 1000
TimestampedName(clock) ==
  "catalog-" \o CatEpoch \o
  (IF clock < 10 THEN "00" ELSE IF clock < 100 THEN "0" ELSE "") \o
  IntToStr(clock) \o ".json"

\* catalogFiles.sort().reverse()[0]
LatestFile(names) == CHOOSE f \in names : \A g \in names \ {f} : SortsBefore(g, f)

\* the catalogs a scrape of the site can produce
ScrapedCatalogs == {c \in Catalogs : c.destinations = DestinationsDaily}

Response(status, body) == [called |-> TRUE, status |-> status, body |-> body]

NoWrite == [name |-> NULL, catalog |-> NoCatalog]

\* scrapeCatalog() of src/index.ts up to the creation of the file: the scrape
\* succeeds and writeFileSync opens the new file, or bot.scrapeCatalog()
\* throws and nothing is written
ScrapeCatalogRun(ok, scraped) ==
  /\ catWriting = NoWrite
  /\ catClock < StartClock + ClockStep * MaxBuilds
  /\ catClock' = catClock + ClockStep
  /\ catWriting' = IF ok THEN [name |-> TimestampedName(catClock'), catalog |-> scraped]
                        ELSE NoWrite
  /\ UNCHANGED <<catStd, catFiles, catBuilt, catResponse>>
  /\ UNCHANGED <<apiVars, pidVars, lbVars, ppVars, botVars, pqVars, opsVars, scVars, qfVars>>

\* writeFileSync has written the whole text and returns
WriteCompleted ==
  /\ catWriting # NoWrite
  /\ catFiles' = Put(catFiles, catWriting.name, catWriting.catalog)
  /\ catBuilt' = Append(catBuilt, catWriting.catalog)
  /\ catWriting' = NoWrite
  /\ UNCHANGED <<catStd, catClock, catResponse>>
  /\ UNCHANGED <<apiVars, pidVars, lbVars, ppVars, botVars, pqVars, opsVars, scVars, qfVars>>

\* fs.readdirSync(dataDir) filtered to the catalog files
CatalogFiles == DOMAIN catFiles \cup (IF catWriting = NoWrite THEN {} ELSE {catWriting.name})

\* GET of src/app/api/catalog/route.ts; JSON.parse throws on the text of a
\* file that is not written yet and the catch answers 500
GetCatalog ==
  /\ catResponse' =
       IF catStd # NoCatalog THEN Response(200, catStd)
       ELSE IF CatalogFiles # {}
         THEN IF LatestFile(CatalogFiles) \in DOMAIN catFiles
                THEN Response(200, catFiles[LatestFile(CatalogFiles)])
                ELSE Response(500, [error |-> "Failed to load catalog"])
       ELSE Response(404, [error |-> "No catalog file found"])
  /\ UNCHANGED <<catStd, catFiles, catClock, catBuilt, catWriting>>
  /\ UNCHANGED <<apiVars, pidVars, lbVars, ppVars, botVars, pqVars, opsVars, scVars, qfVars>>

StartCat ==
  /\ catStd \in ScrapedCatalogs \cup {NoCatalog}
  /\ catFiles = <<>>
  /\ catClock = StartClock
  /\ catBuilt = <<>>
  /\ catResponse = NoCall
  /\ catWriting = NoWrite

IdleCat ==
  /\ catStd = NoCatalog
  /\ catFiles = <<>>
  /\ catClock = StartClock
  /\ catBuilt = <<>>
  /\ catResponse = NoCall
  /\ catWriting = NoWrite

NextCat ==
  \/ \E ok \in BOOLEAN, scraped \in ScrapedCatalogs : ScrapeCatalogRun(ok, scraped)
  \/ WriteCompleted
  \/ GetCatalog

\* C16: GET /api/catalog answers with the catalog saved last whenever a
\* catalog has been saved, and with status 404 and an error body exactly when
\* the data directory holds no catalog.
CatalogQueryLatest ==
  [][GetCatalog =>
       /\ catBuilt # <<>> =>
            /\ catResponse'.status = 200
            /\ catResponse'.body = catBuilt[Len(catBuilt)]
       /\ catResponse'.status = 404 <=> (catBuilt = <<>> /\ catStd = NoCatalog)
       /\ catResponse'.status = 404 => DOMAIN catResponse'.body = {"error"}]_vars

\* the complete catalogs of the data directory
CompleteCatalogs ==
  {catFiles[f] : f \in DOMAIN catFiles} \cup (IF catStd = NoCatalog THEN {} ELSE {catStd})

\* C28: a GET /api/catalog made while a rebuild is writing its file, with a
\* complete catalog in the data directory, answers 200 with a complete
\* catalog saved before or with the one being written, never with an error.
ReadDuringRebuild ==
  [][(GetCatalog /\ catWriting # NoWrite /\ CompleteCatalogs # {}) =>
       /\ catResponse'.status = 200
       /\ catResponse'.body \in CompleteCatalogs \cup {catWriting.catalog}]_vars

----------------------------------------------------------------------------
(* Operations that launch a browser: POST /api/quote, POST                 *)
(* /api/purchase-form, scrapeCatalog(), main() and                         *)
(* interceptNetworkRequests().                                             *)

HexSet == {CharAt("0123456789abcdef", i) : i \in 1..16}

\* /quotation\/([a-f0-9]+)/
quoteUuidPattern ==
  <<Lit("quotation/"), GroupOpen(1), In(HexSet, 1, NoLimit), GroupClose(1)>>

\* match ? match[1] : null
extractQuoteUuid(quoteUrl) ==
  IF Exec(quoteUuidPattern, quoteUrl, 1).ok
    THEN Group(quoteUrl, Exec(quoteUuidPattern, quoteUrl, 1), 1)
    ELSE NULL

QuotationBase == "https://www1.mercantilseguros.com/as/viajesint/MRP022052/quotation/"

\* a purchaseFormUrl that keeps the plan id of the quote page
PurchaseFormUrl_QuotePlan(quoteUuid, id) ==
  QuotationBase \o quoteUuid \o "/" \o id \o "/buy/step-one"

\* purchaseFormUrl
PurchaseFormUrl(quoteUuid, id) ==
  QuotationBase \o quoteUuid \o "/" \o mapPlanIdToPurchaseForm(id) \o "/buy/step-one"

\* !planId || !quoteUrl
MissingInput(body) == body.planId \in {NULL, ""} \/ body.quoteUrl \in {NULL, ""}

NoBody == [planId |-> NULL, quoteUrl |-> NULL]

SessionId == "b91a2eb0822af593be054528d21ca219"

QuoteUrls ==
  {NULL, "",
   QuotationBase \o SessionId,
   QuotationBase \o SessionId \o "/D-30/buy/step-one",
   QuotationBase \o "B91A2EB0",
   "https://www1.mercantilseguros.com/as/viajesint/MRP022052/"}

PurchaseBodies == [planId : {NULL, "", "D-30", "M-50"}, quoteUrl : QuoteUrls]

OpKinds == {"quoteRoute", "purchaseRoute", "scrapeCatalog", "main", "intercept"}

Routes == {"quoteRoute", "purchaseRoute"}

\* NextResponse.json({success, error}, {status})
Responded(status, success, error) ==
  [called |-> TRUE, thrown |-> FALSE, status |-> status, success |-> success,
   error |-> error]

\* a script function returns its value
ReturnedValue == [called |-> TRUE, thrown |-> FALSE, status |-> 0, success |-> TRUE,
                  error |-> NULL]

\* the exception leaves the function
ThrownError == [called |-> TRUE, thrown |-> TRUE, status |-> 0, success |-> FALSE,
                error |-> "exception"]

\* a request arrives, or a script starts
Begin(kind, body) ==
  /\ opKind = "none"
  /\ opKind' = kind
  /\ opBody' = body
  /\ opPc' = IF kind \in Routes THEN "body" ELSE "launch"
  /\ UNCHANGED <<opBrowser, opUrl, opOutcome>>
  /\ UNCHANGED <<apiVars, pidVars, lbVars, ppVars, botVars, pqVars, catVars, scVars, qfVars>>

\* POST /api/purchase-form, up to `new MercantilSegurosBot()`
CheckPurchaseBody ==
  /\ opKind = "purchaseRoute"
  /\ opPc = "body"
  /\ IF MissingInput(opBody)
       THEN /\ opOutcome' = Responded(400, FALSE, "planId and quoteUrl are required")
            /\ opPc' = "done"
       ELSE IF extractQuoteUuid(opBody.quoteUrl) = NULL
         THEN /\ opOutcome' = Responded(400, FALSE,
                                        "Could not extract quote UUID from URL")
              /\ opPc' = "done"
       ELSE /\ opPc' = "launch"
            /\ UNCHANGED opOutcome
  /\ UNCHANGED <<opKind, opBody, opBrowser, opUrl>>
  /\ UNCHANGED <<apiVars, pidVars, lbVars, ppVars, botVars, pqVars, catVars, scVars, qfVars>>

\* POST /api/quote, up to `new MercantilSegurosBot()`: request.json() and the
\* QuoteConfig built from it; body.ages.map throws when ages is not an array
BuildQuoteConfig(ok) ==
  /\ opKind = "quoteRoute"
  /\ opPc = "body"
  /\ IF ok
       THEN /\ opPc' = "launch"
            /\ UNCHANGED opOutcome
       ELSE /\ opOutcome' = Responded(500, FALSE, "exception")
            /\ opPc' = "done"
  /\ UNCHANGED <<opKind, opBody, opBrowser, opUrl>>
  /\ UNCHANGED <<apiVars, pidVars, lbVars, ppVars, botVars, pqVars, catVars, scVars, qfVars>>

\* chromium.launch()
Launch(ok) ==
  /\ opPc = "launch"
  /\ IF ok
       THEN opBrowser' = "open" /\ opPc' = "newPage"
       ELSE opPc' = "thrownAtStart" /\ UNCHANGED opBrowser
  /\ UNCHANGED <<opKind, opBody, opUrl, opOutcome>>
  /\ UNCHANGED <<apiVars, pidVars, lbVars, ppVars, botVars, pqVars, catVars, scVars, qfVars>>

\* browser.newPage() and, in initialize(), page.route and setViewportSize
NewPage(ok) ==
  /\ opPc = "newPage"
  /\ opPc' = IF ok THEN "work" ELSE "thrownAtStart"
  /\ UNCHANGED <<opKind, opBody, opBrowser, opUrl, opOutcome>>
  /\ UNCHANGED <<apiVars, pidVars, lbVars, ppVars, botVars, pqVars, catVars, scVars, qfVars>>

\* the body of the operation between the start of the browser and its end:
\* navigation and extraction; generateQuote catches what its steps throw and
\* returns {success: false, error}
Work(ok) ==
  /\ opPc = "work"
  /\ opUrl' = IF opKind = "purchaseRoute"
                THEN PurchaseFormUrl(extractQuoteUuid(opBody.quoteUrl), opBody.planId)
                ELSE opUrl
  /\ IF opKind \in {"quoteRoute", "main"}
       THEN /\ opPc' = "close"
            /\ opOutcome' = IF opKind = "main" THEN ReturnedValue
                             ELSE IF ok THEN Responded(200, TRUE, NULL)
                             ELSE Responded(200, FALSE, "exception")
       ELSE IF ok
         THEN /\ opPc' = "close"
              /\ opOutcome' = IF opKind = "purchaseRoute"
                                THEN Responded(200, TRUE, NULL) ELSE ReturnedValue
         ELSE /\ opPc' = "thrownAtWork"
              /\ UNCHANGED opOutcome
  /\ UNCHANGED <<opKind, opBody, opBrowser>>
  /\ UNCHANGED <<apiVars, pidVars, lbVars, ppVars, botVars, pqVars, catVars, scVars, qfVars>>

\* the close on the path without exception, and the return
CloseAndReturn ==
  /\ opPc = "close"
  /\ opBrowser' = "closed"
  /\ opPc' = "done"
  /\ UNCHANGED <<opKind, opBody, opUrl, opOutcome>>
  /\ UNCHANGED <<apiVars, pidVars, lbVars, ppVars, botVars, pqVars, catVars, scVars, qfVars>>

\* bot.close(): closes this.browser when it is set
BotClosed(browser) == IF browser = "open" THEN "closed" ELSE browser

\* the handlers of an exception: catch and finally blocks of the operation
HandleThrown ==
  /\ opPc \in {"thrownAtStart", "thrownAtWork"}
  /\ opBrowser' = IF opKind = "intercept" /\ opPc = "thrownAtStart"
                    THEN opBrowser
                    ELSE BotClosed(opBrowser)
  /\ opOutcome' = IF opKind \in Routes THEN Responded(500, FALSE, "exception")
                  ELSE IF opKind = "main" THEN ReturnedValue
                  ELSE ThrownError
  /\ opPc' = "done"
  /\ UNCHANGED <<opKind, opBody, opUrl>>
  /\ UNCHANGED <<apiVars, pidVars, lbVars, ppVars, botVars, pqVars, catVars, scVars, qfVars>>

StartOps ==
  /\ opKind = "none"
  /\ opPc = "idle"
  /\ opBody = NoBody
  /\ opBrowser = "none"
  /\ opUrl = NULL
  /\ opOutcome = NoCall

IdleOps == StartOps

NextOps ==
  \/ \E kind \in OpKinds \ {"purchaseRoute"} : Begin(kind, NoBody)
  \/ \E body \in PurchaseBodies : Begin("purchaseRoute", body)
  \/ CheckPurchaseBody
  \/ \E ok \in BOOLEAN : BuildQuoteConfig(ok)
  \/ \E ok \in BOOLEAN : Launch(ok)
  \/ \E ok \in BOOLEAN : NewPage(ok)
  \/ \E ok \in BOOLEAN : Work(ok)
  \/ CloseAndReturn
  \/ HandleThrown

\* the request cannot be served: an input is missing or quoteUrl holds no
\* session identifier
Unusable(body) == MissingInput(body) \/ extractQuoteUuid(body.quoteUrl) = NULL

\* C17: POST /api/purchase-form with planId or quoteUrl missing, or with a
\* quoteUrl that holds no session identifier, answers success:false with an
\* error and never creates a browser or navigates; otherwise the URL it
\* navigates to is the quotation base, the extracted identifier, the plan id
\* with its prefix mapped, and /buy/step-one.
PurchaseFormRequest ==
  opKind = "purchaseRoute" =>
    IF Unusable(opBody)
      THEN /\ opBrowser = "none"
           /\ opUrl = NULL
           /\ opPc = "done" =>
                /\ opOutcome.success = FALSE
                /\ opOutcome.error # NULL
      ELSE /\ opUrl # NULL =>
                opUrl = QuotationBase \o extractQuoteUuid(opBody.quoteUrl) \o "/" \o
                        mapPlanIdToPurchaseForm(opBody.planId) \o "/buy/step-one"
           /\ (opPc = "done" /\ opOutcome.success) => opUrl # NULL

\* plan D-30 of the quote b91a... is opened as M-30 and the form is returned
PurchaseUrlBuilt ==
  /\ opKind = "purchaseRoute"
  /\ opPc = "done"
  /\ opOutcome.success
  /\ opBody.planId = "D-30"
  /\ opBody.quoteUrl = QuotationBase \o SessionId \o "/D-30/buy/step-one"
  /\ opUrl = QuotationBase \o SessionId \o "/M-30/buy/step-one"
  /\ opBrowser = "closed"

\* C20: when an operation that launches a browser is over, by a return, a
\* failure response or an exception at any step, initialization included,
\* the browser it launched is closed.
BrowserClosedAtEnd == opPc = "done" => opBrowser # "open"

----------------------------------------------------------------------------
(* MercantilSegurosBot.scrapeCatalog: the catalog read from the dropdowns  *)
(* of the quote page.                                                      *)

\* the trip type dropdowns considered
TripTypeDropdowns ==
  { SiteTripTypes,
    SiteTripTypes \o <<Opt("Semanal", " Semanal ")>>,
    <<Opt("", "Seleccione"), Opt("Viajes Por Día", "Viajes Por Día")>>,
    <<Opt("Anual Multiviaje", " Anual Multiviaje"), Opt("Semanal", "Semanal"),
      Opt("Viajes Por Día", "Viajes Por Día")>> }

ScrapeSites == {[hide |-> m, tripTypes |-> t] : m \in HideMarks, t \in TripTypeDropdowns}

\* the loops over the trip type, origin and agent options
ScrapedOptions(dom) ==
  LET keep(o) == /\ o.value # NULL /\ o.value # ""
                 /\ o.text # NULL /\ o.text # "" /\ Trim(o.text) # "Seleccione"
      idx == OrderedIndices({i \in 1..Len(dom) : keep(dom[i])}, Len(dom))
  IN  [k \in 1..Len(idx) |-> Opt(Trim(dom[idx[k]].value), Trim(dom[idx[k]].text))]

\* bot.scrapeCatalog() is called on an initialized bot: navigation, then the
\* trip types and the origins are read
BeginScrape(loaded) ==
  /\ scPc = "start"
  /\ IF loaded
       THEN /\ scTripTypes' = ScrapedOptions(scSite.tripTypes)
            /\ scPc' = "destinations"
            /\ UNCHANGED scResult
       ELSE /\ scResult' = Thrown("Timeout: page.goto")
            /\ scPc' = "done"
            /\ UNCHANGED scTripTypes
  /\ UNCHANGED <<scSite, scDestinations, scFailed>>
  /\ UNCHANGED <<apiVars, pidVars, lbVars, ppVars, botVars, pqVars, catVars, opsVars, qfVars>>

\* the trip type the loop is at
ScrapeNext == Cardinality(DOMAIN scDestinations) + 1

\* one round of the loop over the trip types: selectOption, then the
\* destination options; an exception of selectOption leaves scrapeCatalog
ScrapeDestinations(selected) ==
  /\ scPc = "destinations"
  /\ ScrapeNext <= Len(scTripTypes)
  /\ IF selected
       THEN /\ scDestinations' =
                 Put(scDestinations, scTripTypes[ScrapeNext].value,
                     AvailableDestinations(
                       DestinationDom(scSite, scTripTypes[ScrapeNext].value)))
            /\ UNCHANGED <<scPc, scFailed, scResult>>
       ELSE /\ scFailed' = scFailed \cup {scTripTypes[ScrapeNext].value}
            /\ scResult' = Thrown("Timeout: page.selectOption")
            /\ scPc' = "done"
            /\ UNCHANGED scDestinations
  /\ UNCHANGED <<scSite, scTripTypes>>
  /\ UNCHANGED <<apiVars, pidVars, lbVars, ppVars, botVars, pqVars, catVars, opsVars, qfVars>>

\* the agents are read and the catalog is returned
ReturnCatalog ==
  /\ scPc = "destinations"
  /\ ScrapeNext > Len(scTripTypes)
  /\ scResult' = [called |-> TRUE, thrown |-> FALSE,
                  catalog |-> [tripTypes |-> scTripTypes,
                               origins |-> ScrapedOptions(SiteOrigins),
                               destinations |-> scDestinations]]
  /\ scPc' = "done"
  /\ UNCHANGED <<scSite, scTripTypes, scDestinations, scFailed>>
  /\ UNCHANGED <<apiVars, pidVars, lbVars, ppVars, botVars, pqVars, catVars, opsVars, qfVars>>

StartSc ==
  /\ scSite \in ScrapeSites
  /\ scPc = "start"
  /\ scTripTypes = <<>>
  /\ scDestinations = <<>>
  /\ scFailed = {}
  /\ scResult = NoCall

IdleSc ==
  /\ scSite = NoConfig
  /\ scPc = "start"
  /\ scTripTypes = <<>>
  /\ scDestinations = <<>>
  /\ scFailed = {}
  /\ scResult = NoCall

NextSc ==
  \/ \E loaded \in BOOLEAN : BeginScrape(loaded)
  \/ \E selected \in BOOLEAN : ScrapeDestinations(selected)
  \/ ReturnCatalog

\* the option of value v in the destination dropdown of trip type t
DestinationOption(t, v) ==
  LET dom == DestinationDom(scSite, t)
  IN  dom[CHOOSE j \in 1..Len(dom) : Trim(dom[j].value) = v]

\* C21: in a catalog returned by scrapeCatalog every key of destinations is
\* the value of an entry of tripTypes, and no destination list holds an option
\* that was disabled or hidden on the page for that trip type.
CatalogWellFormed ==
  (scResult # NoCall /\ ~scResult.thrown) =>
    LET cat == scResult.catalog
    IN  /\ \A t \in DOMAIN cat.destinations :
             \E i \in 1..Len(cat.tripTypes) : cat.tripTypes[i].value = t
        /\ \A t \in DOMAIN cat.destinations :
             \A k \in 1..Len(cat.destinations[t]) :
               /\ ~IsDisabled(DestinationOption(t, cat.destinations[t][k].value))
               /\ ~IsHidden(DestinationOption(t, cat.destinations[t][k].value))

\* C22: when the destinations of a trip type could not be scraped, the
\* build still returns a catalog in which that trip type has an empty
\* destination list and every other trip type has its list.
CatalogBuildDegrades ==
  (scPc = "done" /\ scFailed # {}) =>
    /\ ~scResult.thrown
    /\ \A i \in 1..Len(scTripTypes) :
         /\ scTripTypes[i].value \in DOMAIN scResult.catalog.destinations
         /\ scTripTypes[i].value \in scFailed =>
              scResult.catalog.destinations[scTripTypes[i].value] = <<>>

----------------------------------------------------------------------------
(* The quote form of the home page: passenger count, ages and submit.      *)

\* the options of the passengers select
PassengerOptions == 1..MaxPassengers

\* what the user leaves in an age input: nothing, or a number
AgeInputs == {"", "41"}

\* the outcome of the two date validations of handleSubmit
DateChecks == {"ok", "past", "reversed"}

NoQuotePayload == [posted |-> FALSE, passengers |-> 0, ages |-> <<>>]

\* newAges that keeps the old list when the count goes down
newAges_Untruncated(count, ages) ==
  [i \in 1..(IF count < Len(ages) THEN Len(ages) ELSE count) |->
     IF i <= Len(ages) /\ ages[i] \notin {NULL, ""} THEN ages[i] ELSE "30"]

\* Array(count).fill('').map((_, i) => formData.ages?.[i] || '30')
newAges(count, ages) ==
  [i \in 1..count |->
     IF i <= Len(ages) /\ ages[i] \notin {NULL, ""} THEN ages[i] ELSE "30"]

\* onChange of the passengers select
handlePassengerChange(count) ==
  /\ qfPassengers' = count
  /\ qfAges' = newAges(count, qfAges)
  /\ qfPayload' = NoQuotePayload
  /\ UNCHANGED <<apiVars, pidVars, lbVars, ppVars, botVars, pqVars, catVars, opsVars, scVars>>

\* onChange of the age input of passenger index (0-based in the code):
\* newAges[index] = value on a copy of the list, holes where it was shorter
handleAgeChange(index, value) ==
  /\ index \in 1..qfPassengers
  /\ qfAges' = [i \in 1..(IF index > Len(qfAges) THEN index ELSE Len(qfAges)) |->
                  IF i = index THEN value
                  ELSE IF i <= Len(qfAges) THEN qfAges[i] ELSE NULL]
  /\ qfPayload' = NoQuotePayload
  /\ UNCHANGED qfPassengers
  /\ UNCHANGED <<apiVars, pidVars, lbVars, ppVars, botVars, pqVars, catVars, opsVars, scVars>>

\* parseInt(age, 10) of the text of a number input
ParseAge(age) == IF age \in {NULL, ""} THEN NaN ELSE ParseDigits(age)

\* handleSubmit of the home page; the browser fires it only when every
\* required age input has a value, and a failed date validation returns
\* before anything is posted
QuoteSubmit(dateCheck) ==
  /\ \A i \in 1..qfPassengers : i <= Len(qfAges) /\ qfAges[i] \notin {NULL, ""}
  /\ qfPayload' =
       IF dateCheck # "ok" THEN NoQuotePayload
       ELSE [posted |-> TRUE, passengers |-> qfPassengers,
             ages |-> [i \in 1..Len(qfAges) |-> ParseAge(qfAges[i])]]
  /\ UNCHANGED <<qfPassengers, qfAges>>
  /\ UNCHANGED <<apiVars, pidVars, lbVars, ppVars, botVars, pqVars, catVars, opsVars, scVars>>

\* useState: passengers 1, ages ['30']
StartQf ==
  /\ qfPassengers = 1
  /\ qfAges = <<"30">>
  /\ qfPayload = NoQuotePayload

IdleQf == StartQf

NextQf ==
  \/ \E count \in PassengerOptions : handlePassengerChange(count)
  \/ \E index \in PassengerOptions, value \in AgeInputs : handleAgeChange(index, value)
  \/ \E dateCheck \in DateChecks : QuoteSubmit(dateCheck)

\* C29: after any passenger-count changes and age edits the ages list has
\* as many entries as the passenger count, which is between 1 and 8; a
\* posted payload has ages.length = passengers; and a change of the count
\* keeps the ages entered for the passengers that remain.
AgesMatchPassengers ==
  /\ [](/\ qfPassengers \in 1..MaxPassengers
        /\ Len(qfAges) = qfPassengers
        /\ qfPayload.posted => Len(qfPayload.ages) = qfPayload.passengers)
  /\ [][\A count \in PassengerOptions :
          handlePassengerChange(count) =>
            \A i \in 1..count :
              (i <= Len(qfAges) /\ qfAges[i] # "") => qfAges'[i] = qfAges[i]]_vars

\* a payload for three passengers posted after the count went up with the
\* age of the first passenger entered before
PostedThreeAges ==
  /\ qfPayload.posted
  /\ qfPayload.passengers = 3
  /\ qfPayload.ages = <<41, 30, 30>>

InitApi == StartApi /\ IdlePid /\ IdleLb /\ IdlePp /\ IdleBot /\ IdlePq /\ IdleCat /\ IdleOps /\ IdleSc /\ IdleQf
SpecApi == InitApi /\ [][NextApi]_vars

InitPid == IdleApi /\ StartPid /\ IdleLb /\ IdlePp /\ IdleBot /\ IdlePq /\ IdleCat /\ IdleOps /\ IdleSc /\ IdleQf
SpecPid == InitPid /\ [][NextPid]_vars

InitLb == IdleApi /\ IdlePid /\ StartLb /\ IdlePp /\ IdleBot /\ IdlePq /\ IdleCat /\ IdleOps /\ IdleSc /\ IdleQf
SpecLb == InitLb /\ [][NextLb]_vars

InitPp == IdleApi /\ IdlePid /\ IdleLb /\ StartPp /\ IdleBot /\ IdlePq /\ IdleCat /\ IdleOps /\ IdleSc /\ IdleQf
SpecPp == InitPp /\ [][NextPp]_vars

InitBot == IdleApi /\ IdlePid /\ IdleLb /\ IdlePp /\ StartBot /\ IdlePq /\ IdleCat /\ IdleOps /\ IdleSc /\ IdleQf
SpecBot == InitBot /\ [][NextBot]_vars

InitPq == IdleApi /\ IdlePid /\ IdleLb /\ IdlePp /\ IdleBot /\ StartPq /\ IdleCat /\ IdleOps /\ IdleSc /\ IdleQf
SpecPq == InitPq /\ [][NextPq]_vars

InitCat == IdleApi /\ IdlePid /\ IdleLb /\ IdlePp /\ IdleBot /\ IdlePq /\ StartCat /\ IdleOps /\ IdleSc /\ IdleQf
SpecCat == InitCat /\ [][NextCat]_vars

InitOps == IdleApi /\ IdlePid /\ IdleLb /\ IdlePp /\ IdleBot /\ IdlePq /\ IdleCat /\ StartOps /\ IdleSc /\ IdleQf
SpecOps == InitOps /\ [][NextOps]_vars

InitSc == IdleApi /\ IdlePid /\ IdleLb /\ IdlePp /\ IdleBot /\ IdlePq /\ IdleCat /\ IdleOps /\ StartSc /\ IdleQf
SpecSc == InitSc /\ [][NextSc]_vars

InitQf == IdleApi /\ IdlePid /\ IdleLb /\ IdlePp /\ IdleBot /\ IdlePq /\ IdleCat /\ IdleOps /\ IdleSc /\ StartQf
SpecQf == InitQf /\ [][NextQf]_vars

====
